---- MODULE Spec2Model ----
(***************************************************************************)
(* Home Assistant <-> Music Assistant bridge                               *)
(* (custom_components/music_assistant).                                    *)
(*                                                                         *)
(* The model has two main parts.                                           *)
(*                                                                         *)
(*  - The player-control bridge of player_controls.py: discovery of        *)
(*    candidate controls, registration of the enabled ones with the remote *)
(*    server, the push of local state changes to the server and the        *)
(*    translation of remote requests into local service calls.  Every      *)
(*    action of Spec is one handler of the code run from its call to its   *)
(*    return or to the exception that ends it.                             *)
(*                                                                         *)
(*  - The media URI codec of media_source.py, as operators on sequences of *)
(*    characters (SpecUri).                                                *)
(*                                                                         *)
(* Four more specifications run one part of the code each, on inputs drawn *)
(* in their initial states: discovery over populations of local entities   *)
(* (SpecDisc), the event dispatcher handle_mass_event (SpecEvents), the    *)
(* commands of a MassPlayer entity (SpecPlayer) and the browse tree of     *)
(* media_source.py and of the entity (SpecBrowse).                         *)
(*                                                                         *)
(* Further specifications follow the code where its steps interleave or    *)
(* where it has a life cycle: the setup flow of config_flow.py (SpecFlow), *)
(* async_hass_state_event as tasks that give way at their awaits           *)
(* (SpecStateRace), the media_player platform with its entities            *)
(* (SpecEntities, and SpecEntitiesFair for what must eventually happen)    *)
(* and the setup and unload of a config entry (SpecUnload).                *)
(*                                                                         *)
(* Python values are modelled as follows: a dict is a function whose       *)
(* DOMAIN is the set of its keys, a list is a sequence, a str that the     *)
(* code only compares or concatenates is a TLA+ string, a str that the     *)
(* code splits is a sequence of one-character strings, an optional value   *)
(* is a sequence of length 0 (None) or 1, and a number that the code       *)
(* divides is an exact ratio num/den in lowest terms.                      *)
(***************************************************************************)
EXTENDS Integers, Sequences, FiniteSets, TLC

VARIABLES
    hass_states,          \* hass.states: entity_id -> State, for the entities that exist
    config_options,       \* HassPlayerControls.config_options (the entry's options)
    registered_controls,  \* HassPlayerControls._registered_controls: entity_id -> list of controls
    mass_controls,        \* remote server: control_id -> control bound in the cb_func it was given
    mass_calls,           \* calls made on the remote server by the handler that ran last
    service_calls,        \* hass.services.async_call calls made by the handler that ran last
    handler,              \* the handler that ran last, its inputs and whether it raised
    browse_item,          \* a catalog item of a server: <<>> or <<[server_id, media_item]>>
    src,                  \* the BrowseMedia made for browse_item: <<>> or <<[identifier, media_content_id]>>
    uri,                  \* the string handed to async_parse_uri and where it comes from
    parsed,               \* what async_parse_uri returned or raised
    discovered,           \* the first and the last run of discovery over hass_states
    mass_players,         \* remote server: the players get_players returns
    mass_event,           \* the event handle_mass_event was last called with
    event_effects,        \* what that call did, in order: dispatches, remote calls, registration
    mass_library,         \* remote server: the playlists and the radios of the library
    mass_servers,         \* hass.data[DOMAIN].values(): the servers of the config entries
    browse_request,       \* the browse request handled last
    browse_result,        \* the BrowseMedia it returned or the exception it raised
    flow,                 \* the ConfigFlow object: _host, _port, _name and its unique id
    flow_step,            \* the step of the flow that ran last, its input and how login ended
    flow_result,          \* what that step returned
    flow_entries,         \* the config entries of the domain
    state_tasks,          \* the runs of async_hass_state_event, in the order they started
    mass_pushed,          \* remote server: control_id -> the state it was given last
    dispatcher,           \* the dispatcher's connections: pairs <<topic, target>>
    media_players,        \* media_players of async_setup_entry: player_id -> MassPlayer
    added_entities,       \* the player_ids of the entities given to async_add_entities, in order
    entity_tasks,         \* the coroutines of the entities that wait to run or to resume
    players_received,     \* player_id -> the payload sent last on the players topic
    players_enumerated,   \* the available players that get_players has returned
    players_removed,      \* the players marked unavailable since their last payload
    queue_log,            \* player_id -> what has been written to the entity's queue cache, in order
    events_handled,       \* how many events handle_mass_event has been called with
    entry_state,          \* the config entry: not loaded, loaded or unloaded
    hass_data,            \* hass.data[DOMAIN]: the entry ids that have a server
    mass_connected,       \* whether the entry's server is connected
    bus_listeners         \* the listeners of state_changed on hass.bus

bridgeVars == <<hass_states, config_options, registered_controls, mass_controls,
                mass_calls, service_calls, handler>>
uriVars == <<browse_item, src, uri, parsed>>
discVars == <<discovered>>
eventVars == <<mass_players, mass_event, event_effects>>
playerVars == <<mass_library>>
browseVars == <<mass_servers, browse_request, browse_result>>
flowVars == <<flow, flow_step, flow_result, flow_entries>>
raceVars == <<state_tasks, mass_pushed>>
entityVars == <<dispatcher, media_players, added_entities, entity_tasks, players_received,
                players_enumerated, players_removed, queue_log, events_handled>>
unloadVars == <<entry_state, hass_data, mass_connected, bus_listeners>>
vars == <<hass_states, config_options, registered_controls, mass_controls,
          mass_calls, service_calls, handler, browse_item, src, uri, parsed,
          discovered, mass_players, mass_event, event_effects, mass_library,
          mass_servers, browse_request, browse_result,
          flow, flow_step, flow_result, flow_entries, state_tasks, mass_pushed,
          dispatcher, media_players, added_entities, entity_tasks, players_received,
          players_enumerated, players_removed, queue_log, events_handled,
          entry_state, hass_data, mass_connected, bus_listeners>>

\* what the handlers of one part of the model leave alone
laterVars == <<flowVars, raceVars, entityVars, unloadVars>>
besidesBridge == <<uriVars, discVars, eventVars, playerVars, browseVars, laterVars>>
besidesUri == <<bridgeVars, discVars, eventVars, playerVars, browseVars, laterVars>>
besidesBrowse == <<bridgeVars, uriVars, discVars, eventVars, playerVars, mass_servers,
                   laterVars>>
besidesDisc == <<config_options, registered_controls, mass_controls,
                 mass_calls, service_calls, handler, uriVars, eventVars, playerVars,
                 browseVars, laterVars>>
besidesEvents == <<hass_states, config_options, service_calls, mass_players,
                   uriVars, discVars, playerVars, browseVars, laterVars>>
besidesPlayer == <<hass_states, config_options, registered_controls, mass_controls,
                   service_calls, uriVars, discVars, eventVars, playerVars,
                   browseVars, laterVars>>
besidesFlow == <<bridgeVars, uriVars, discVars, eventVars, playerVars, browseVars,
                 raceVars, entityVars, unloadVars>>
besidesRace == <<config_options, registered_controls, mass_controls, mass_calls,
                 service_calls, handler, uriVars, discVars, eventVars, playerVars,
                 browseVars, flowVars, entityVars, unloadVars>>
besidesEntities == <<bridgeVars, uriVars, discVars, mass_players, playerVars, browseVars,
                     flowVars, raceVars, unloadVars>>
besidesUnload == <<uriVars, discVars, eventVars, playerVars, browseVars, flowVars,
                   raceVars, entityVars>>

----------------------------------------------------------------------------
(* Constants of player_controls.py and of the Home Assistant modules it    *)
(* imports.                                                                *)

CONTROL_TYPE_POWER == 0
CONTROL_TYPE_VOLUME == 1
OFF_STATES == {"off", "unavailable", "unknown"}

SWITCH_DOMAIN == "switch"
MEDIA_PLAYER_DOMAIN == "media_player"
INPUT_BOOLEAN_DOMAIN == "input_boolean"
ATTR_ENTITY_ID == "entity_id"
ATTR_INPUT_SOURCE == "source"
ATTR_INPUT_SOURCE_LIST == "source_list"
ATTR_MEDIA_VOLUME_LEVEL == "volume_level"
SERVICE_TURN_OFF == "turn_off"
SERVICE_TURN_ON == "turn_on"
SERVICE_VOLUME_SET == "volume_set"
CONF_POWER_CONTROL_ENTITIES == "power_control_entities"
CONF_VOLUME_CONTROL_ENTITIES == "volume_control_entities"

\* Python's None where the code compares it with a str.
None == "<None>"

----------------------------------------------------------------------------
(* Python helpers.                                                         *)

Range(s) == { s[i] : i \in 1..Len(s) }

\* dict.get(key, default)
DictGet(d, key, default) == IF key \in DOMAIN d THEN d[key] ELSE default

\* the dict with no key
EmptyDict == [k \in {} |-> <<>>]

RECURSIVE GCD(_, _)
GCD(a, b) == IF b = 0 THEN a ELSE GCD(b, a % b)

\* the number n/d (d > 0, n >= 0) in lowest terms
Ratio(n, d) == LET g == GCD(n, d) IN [num |-> n \div g, den |-> d \div g]

\* Python's  x * k  for a number x and an int k
Times(x, k) == Ratio(x.num * k, x.den)

\* Python's floor division  n // d, the slip that TrueDiv is checked against
FloorDiv(n, d) == Ratio(n \div d, 1)

\* Python's true division  n / d  of ints
TrueDiv(n, d) == Ratio(n, d)

Zero == Ratio(0, 1)

----------------------------------------------------------------------------
(* The local entities.  The bound on the model is the choice of these two  *)
(* entities and of the states the state machine may hold for them: a media *)
(* player with a source list and a switch.                                 *)

ReceiverId == "media_player.receiver"
AmpId == "switch.amp"

\* the order in which hass.states.async_all returns the entities
EntityOrder == <<ReceiverId, AmpId>>
EntityIds == Range(EntityOrder)

SourceList == <<"TV", "CD">>

\* The receiver's attributes: the source attribute is absent or names a source
\* of the list; the volume level is reported while the receiver plays.
ReceiverAttributes(st) ==
    LET base == [friendly_name |-> "Receiver", source_list |-> SourceList]
        sel == {EmptyDict} \cup { [source |-> s] : s \in Range(SourceList) }
        vol == IF st = "playing" THEN [volume_level |-> Ratio(55, 100)] ELSE EmptyDict
    IN  { base @@ s @@ vol : s \in sel }

ReceiverStates ==
    UNION { { [entity_id |-> ReceiverId, domain |-> MEDIA_PLAYER_DOMAIN,
               name |-> "Receiver", state |-> st, attributes |-> a] :
                 a \in ReceiverAttributes(st) } : st \in {"off", "playing"} }

AmpStates ==
    { [entity_id |-> AmpId, domain |-> SWITCH_DOMAIN, name |-> "Amp",
       state |-> st, attributes |-> [friendly_name |-> "Amp"]] :
         st \in {"off", "on", "unavailable"} }

StateObjects(e) == IF e = ReceiverId THEN ReceiverStates ELSE AmpStates

\* the values the remote server requests of a volume control
VolumeRequests == {0, 55, 100}

----------------------------------------------------------------------------
(* Discovery: async_get_playercontrol_entities.                            *)

PowerControl(entity, source) ==
    [control_type |-> CONTROL_TYPE_POWER,
     control_id |-> IF source # "" THEN entity.entity_id \o "_power_" \o source
                    ELSE entity.entity_id \o "_power",
     provider_name |-> "Home Assistant",
     name |-> IF source # ""
              THEN entity.name \o " (" \o entity.entity_id \o "): " \o source
              ELSE entity.name \o " (" \o entity.entity_id \o ")",
     entity_id |-> entity.entity_id,
     source |-> source]

VolumeControl(entity) ==
    [control_type |-> CONTROL_TYPE_VOLUME,
     control_id |-> entity.entity_id \o "_volume",
     provider_name |-> "Home Assistant",
     name |-> entity.name \o " (" \o entity.entity_id \o ")",
     entity_id |-> entity.entity_id]

\* a source-less power control added to those of the source list
EntityControlsPlusPlain(entity) ==
    IF DictGet(entity.attributes, "mass_player_id", "") # "" THEN <<>>
    ELSE LET source_list == DictGet(entity.attributes, ATTR_INPUT_SOURCE_LIST, <<"">>)
             power == [i \in 1..Len(source_list) |-> PowerControl(entity, source_list[i])]
             plain == IF ATTR_INPUT_SOURCE_LIST \in DOMAIN entity.attributes
                      THEN <<PowerControl(entity, "")>> ELSE <<>>
         IN  IF entity.domain = MEDIA_PLAYER_DOMAIN
             THEN Append(power \o plain, VolumeControl(entity))
             ELSE power \o plain

\* the controls one entity contributes (the body of the loop over the entities)
EntityControls(entity) ==
    IF DictGet(entity.attributes, "mass_player_id", "") # "" THEN <<>>
    ELSE LET source_list == DictGet(entity.attributes, ATTR_INPUT_SOURCE_LIST, <<"">>)
             power == [i \in 1..Len(source_list) |-> PowerControl(entity, source_list[i])]
         IN  IF entity.domain = MEDIA_PLAYER_DOMAIN
             THEN Append(power, VolumeControl(entity))
             ELSE power

\* the loop over the entities left at the first entity that is skipped
RECURSIVE ControlsUntilSkipped(_, _, _)
ControlsUntilSkipped(states, order, i) ==
    IF i > Len(order) THEN <<>>
    ELSE LET e == order[i]
         IN  IF e \in DOMAIN states
                  /\ DictGet(states[e].attributes, "mass_player_id", "") # ""
             THEN <<>>
             ELSE (IF e \in DOMAIN states /\ states[e].domain \in
                         {SWITCH_DOMAIN, MEDIA_PLAYER_DOMAIN, INPUT_BOOLEAN_DOMAIN}
                   THEN EntityControls(states[e]) ELSE <<>>)
                  \o ControlsUntilSkipped(states, order, i + 1)

\* the loop of lines 36-74 over the entities of the three domains, in the
\* order in which hass.states.async_all returns them
RECURSIVE ControlsOver(_, _, _)
ControlsOver(states, order, i) ==
    IF i > Len(order) THEN <<>>
    ELSE LET e == order[i]
         IN  (IF e \in DOMAIN states /\ states[e].domain \in
                    {SWITCH_DOMAIN, MEDIA_PLAYER_DOMAIN, INPUT_BOOLEAN_DOMAIN}
              THEN EntityControls(states[e]) ELSE <<>>)
             \o ControlsOver(states, order, i + 1)

ControlsFrom(states, i) == ControlsOver(states, EntityOrder, i)

async_get_playercontrol_entities(states) == ControlsFrom(states, 1)

----------------------------------------------------------------------------
(* Registration: HassPlayerControls.async_register_player_controls.        *)

\* enabled_power_controls + enabled_volume_controls, read for membership only
EnabledControls(options) ==
    DictGet(options, CONF_POWER_CONTROL_ENTITIES, {})
        \cup DictGet(options, CONF_VOLUME_CONTROL_ENTITIES, {})

\* the filter of the slip "register every candidate"
IsEnabledAlways(control, enabled) == TRUE

\* "if control['control_id'] not in enabled_controls: continue"
IsEnabled(control, enabled) == control.control_id \in enabled

\* the initial state handed to register_player_control
CurState(control, entity) ==
    IF control.control_type = CONTROL_TYPE_VOLUME
    THEN Times(DictGet(entity.attributes, ATTR_MEDIA_VOLUME_LEVEL, Zero), 100)
    ELSE entity.state \notin OFF_STATES

\* bookkeeping that appends without looking
StoreControlAppend(table, entity_id, control) ==
    LET t == IF entity_id \in DOMAIN table THEN table ELSE (entity_id :> <<>>) @@ table
    IN  [t EXCEPT ![entity_id] = Append(@, control)]

\* the bookkeeping after a register call that returned
StoreControl(table, entity_id, control) ==
    LET t == IF entity_id \in DOMAIN table THEN table ELSE (entity_id :> <<>>) @@ table
    IN  IF control \in Range(t[entity_id]) THEN t
        ELSE [t EXCEPT ![entity_id] = Append(@, control)]

\* a loop body that stores the control before it makes the call
RegisterOneStoreFirst(control, acc, states, enabled, failAt) ==
    IF acc.raised THEN acc
    ELSE IF ~IsEnabled(control, enabled) THEN acc
    ELSE IF control.entity_id \notin DOMAIN states THEN acc
    ELSE LET entity == states[control.entity_id]
             call == [method |-> "register_player_control",
                      control_type |-> control.control_type,
                      control_id |-> control.control_id,
                      provider_name |-> "Home Assistant",
                      name |-> control.name,
                      state |-> CurState(control, entity)]
         IN  [table |-> StoreControl(acc.table, entity.entity_id, control),
              controls |-> IF Len(acc.calls) + 1 = failAt THEN acc.controls
                           ELSE (control.control_id :> control) @@ acc.controls,
              calls |-> Append(acc.calls, call),
              raised |-> (Len(acc.calls) + 1 = failAt)]

\* One pass of the loop body.  acc holds the table, the server's controls, the
\* calls made so far and whether a call has raised; failAt is the number of
\* the remote call that raises (0: none does).
RegisterOne(control, acc, states, enabled, failAt) ==
    IF acc.raised THEN acc
    ELSE IF ~IsEnabled(control, enabled) THEN acc
    ELSE IF control.entity_id \notin DOMAIN states THEN acc
    ELSE LET entity == states[control.entity_id]
             call == [method |-> "register_player_control",
                      control_type |-> control.control_type,
                      control_id |-> control.control_id,
                      provider_name |-> "Home Assistant",
                      name |-> control.name,
                      state |-> CurState(control, entity)]
         IN  IF Len(acc.calls) + 1 = failAt
             THEN [acc EXCEPT !.calls = Append(@, call), !.raised = TRUE]
             ELSE [table |-> StoreControl(acc.table, entity.entity_id, control),
                   controls |-> (control.control_id :> control) @@ acc.controls,
                   calls |-> Append(acc.calls, call),
                   raised |-> FALSE]

RECURSIVE RegisterLoop(_, _, _, _, _, _)
RegisterLoop(candidates, i, acc, states, enabled, failAt) ==
    IF i > Len(candidates) THEN acc
    ELSE RegisterLoop(candidates, i + 1,
                      RegisterOne(candidates[i], acc, states, enabled, failAt),
                      states, enabled, failAt)

async_register_player_controls(states, options, table, controls, failAt) ==
    RegisterLoop(async_get_playercontrol_entities(states), 1,
                 [table |-> table, controls |-> controls, calls |-> <<>>, raised |-> FALSE],
                 states, EnabledControls(options), failAt)

----------------------------------------------------------------------------
(* Inbound sync: HassPlayerControls.async_hass_state_event.                *)

\* the slip "on unless the state is off" (the test of line 102 used for the push)
PlainPowerStateOnlyOff(state_obj) == state_obj.state # "off"

\* the state of a power control without a source
PlainPowerState(state_obj) == state_obj.state \notin OFF_STATES

\* the state of a power control with a source
SourcePowerState(control, state_obj) ==
    DictGet(state_obj.attributes, ATTR_INPUT_SOURCE, "") = control.source

\* the state pushed for one control
NewState(control, state_obj) ==
    IF control.control_type = CONTROL_TYPE_POWER /\ control.source # ""
    THEN SourcePowerState(control, state_obj)
    ELSE IF control.control_type = CONTROL_TYPE_POWER
    THEN PlainPowerState(state_obj)
    ELSE Times(DictGet(state_obj.attributes, ATTR_MEDIA_VOLUME_LEVEL, Zero), 100)

RECURSIVE UpdateLoop(_, _, _, _, _)
UpdateLoop(controls, i, state_obj, acc, failAt) ==
    IF i > Len(controls) \/ acc.raised THEN acc
    ELSE LET call == [method |-> "update_player_control",
                      control_id |-> controls[i].control_id,
                      state |-> NewState(controls[i], state_obj)]
         IN  UpdateLoop(controls, i + 1, state_obj,
                        [calls |-> Append(acc.calls, call),
                         raised |-> (Len(acc.calls) + 1 = failAt)],
                        failAt)

\* "if not state_obj: return"
HasNewState(event) == event.new_state # <<>>

\* event.data is [entity_id, new_state]; new_state is <<>> (None) or <<State>>
async_hass_state_event(event, table, failAt) ==
    IF event.entity_id \notin DOMAIN table
    THEN [calls |-> <<>>, raised |-> FALSE]
    ELSE IF ~HasNewState(event)
    THEN [calls |-> <<>>, raised |-> FALSE]
    ELSE LET state_obj == event.new_state[1]
         IN  UpdateLoop(table[state_obj.entity_id], 1, state_obj,
                        [calls |-> <<>>, raised |-> FALSE], failAt)

----------------------------------------------------------------------------
(* Outbound command: HassPlayerControls.async_set_player_control_state.    *)

ServiceCall(domain, service, data) ==
    [domain |-> domain, service |-> service, data |-> data]

\* the slip "turn off whatever source is selected"
SourceMatchesAlways(control, entity) == TRUE

\* "elif entity.attributes.get(ATTR_INPUT_SOURCE) == control['source']"
SourceMatches(control, entity) ==
    DictGet(entity.attributes, ATTR_INPUT_SOURCE, None) = control.source

\* the slip "new_state // 100"
VolumeLevelFloor(new_state) == FloorDiv(new_state, 100)

\* the level of the volume_set call
VolumeLevel(new_state) == TrueDiv(new_state, 100)

\* the slip "no check that the entity exists": a missing entity reads as a
\* state object without state and attributes
StatesGetUnchecked(states, entity_id) ==
    IF entity_id \in DOMAIN states THEN <<states[entity_id]>>
    ELSE <<[entity_id |-> entity_id, domain |-> "", name |-> "", state |-> None,
            attributes |-> EmptyDict]>>

\* hass.states.get(entity_id): <<>> (None) or <<State>>
StatesGet(states, entity_id) ==
    IF entity_id \in DOMAIN states THEN <<states[entity_id]>> ELSE <<>>

\* the service calls the handler makes, in order
async_set_player_control_state(control, new_state, states) ==
    LET entity_id == control.entity_id
        got == StatesGet(states, entity_id)
    IN  IF got = <<>> THEN <<>>
        ELSE LET entity == got[1] IN
             IF control.control_type = CONTROL_TYPE_POWER /\ control.source # ""
             THEN IF new_state /\ entity.state = "off"
                  THEN << ServiceCall(entity.domain, "select_source",
                            [entity_id |-> entity_id, source |-> control.source]) >>
                  ELSE IF SourceMatches(control, entity)
                  THEN << ServiceCall(entity.domain, SERVICE_TURN_OFF,
                            [entity_id |-> entity_id]) >>
                  ELSE <<>>
             ELSE IF control.control_type = CONTROL_TYPE_POWER
             THEN << ServiceCall(entity.domain,
                        IF new_state THEN SERVICE_TURN_ON ELSE SERVICE_TURN_OFF,
                        [entity_id |-> entity_id]) >>
             ELSE IF control.control_type = CONTROL_TYPE_VOLUME
             THEN << ServiceCall(entity.domain, SERVICE_VOLUME_SET,
                        [entity_id |-> entity_id,
                         volume_level |-> VolumeLevel(new_state)]) >>
             ELSE <<>>

----------------------------------------------------------------------------
(* The media URI codec of media_source.py.  A str is a sequence of         *)
(* one-character strings.                                                  *)

\* f"{URI_SCHEME}{DOMAIN}/" = "media-source://music_assistant/"
MASS_URI_SCHEME ==
    <<"m", "e", "d", "i", "a", "-", "s", "o", "u", "r", "c", "e", ":", "/", "/",
      "m", "u", "s", "i", "c", "_", "a", "s", "s", "i", "s", "t", "a", "n", "t", "/">>
ITEM_ID_SEPERATOR == <<"#", "#", "#">>

MEDIA_TYPE_PLAYLIST == <<"p", "l", "a", "y", "l", "i", "s", "t">>
MEDIA_TYPE_ALBUM == <<"a", "l", "b", "u", "m">>
MEDIA_TYPE_ARTIST == <<"a", "r", "t", "i", "s", "t">>
MEDIA_TYPE_TRACK == <<"t", "r", "a", "c", "k">>
MEDIA_TYPE_RADIO == <<"r", "a", "d", "i", "o">>

\* the keys of CONTENT_TYPE_MEDIA_CLASS
ContentTypes ==
    LET item == {MEDIA_TYPE_PLAYLIST, MEDIA_TYPE_ALBUM, MEDIA_TYPE_ARTIST,
                 MEDIA_TYPE_TRACK, MEDIA_TYPE_RADIO}
    IN  item \cup { t \o <<"s">> : t \in item }

\* str.startswith
StartsWith(s, prefix) ==
    Len(s) >= Len(prefix) /\ SubSeq(s, 1, Len(prefix)) = prefix

\* str.find from index i (1-based): the least index >= i where sep occurs, 0 if none
RECURSIVE Find(_, _, _)
Find(s, sep, i) ==
    IF i + Len(sep) - 1 > Len(s) THEN 0
    ELSE IF SubSeq(s, i, i + Len(sep) - 1) = sep THEN i
    ELSE Find(s, sep, i + 1)

\* str.split(sep): the pieces between the occurrences of sep, found left to
\* right without overlap
RECURSIVE Split(_, _)
Split(s, sep) ==
    LET i == Find(s, sep, 1)
    IN  IF i = 0 THEN <<s>>
        ELSE <<SubSeq(s, 1, i - 1)>> \o Split(SubSeq(s, i + Len(sep), Len(s)), sep)

\* the identifier and the media_content_id async_create_media_item_source
\* composes (lines 284-292)
MediaItemId(media_item) ==
    media_item.provider \o ITEM_ID_SEPERATOR \o media_item.item_id

async_create_media_item_source(server_id, media_item) ==
    LET media_type == media_item.media_type
        identifier == server_id \o <<"/">> \o media_type \o <<"/">> \o MediaItemId(media_item)
    IN  [identifier |-> identifier,
         media_content_id |-> MASS_URI_SCHEME \o identifier]

\* async_parse_uri: the dict it returns (status "ok") or the exception that
\* the subscript of line 320 (IndexError) or the unpacking of line 326
\* (ValueError) raises
\* the scheme prefix left in place
KeepScheme(uri_in) == uri_in

\* lines 317-318: a uri that starts with the scheme is cut to what follows it
StripScheme(uri_in) ==
    IF StartsWith(uri_in, MASS_URI_SCHEME)
    THEN Split(uri_in, MASS_URI_SCHEME)[2] ELSE uri_in

async_parse_uri(uri_in) ==
    LET u1 == StripScheme(uri_in)
        u2 == IF StartsWith(u1, <<"/">>) THEN SubSeq(u1, 2, Len(u1)) ELSE u1
        parts == Split(u2, <<"/">>)
        content_id == IF Len(parts) > 2 THEN parts[3] ELSE <<>>
        pair == Split(content_id, ITEM_ID_SEPERATOR)
    IN  IF Len(parts) < 2 THEN [status |-> "IndexError"]
        ELSE IF content_id # <<>> /\ Len(pair) # 2 THEN [status |-> "ValueError"]
        ELSE [status |-> "ok",
              item_id |-> IF content_id # <<>> THEN pair[2] ELSE <<>>,
              provider |-> IF content_id # <<>> THEN pair[1] ELSE <<>>,
              media_type |-> parts[2],
              mass_id |-> parts[1],
              content_id |-> content_id]

----------------------------------------------------------------------------
(* The state machine.                                                      *)

NotParsed == [status |-> "none"]
NoUri == [kind |-> "none", text |-> <<>>]

InitBridge ==
    /\ hass_states = EmptyDict
    /\ config_options = [power_control_entities |-> {}, volume_control_entities |-> {}]
    /\ registered_controls = EmptyDict
    /\ mass_controls = EmptyDict
    /\ mass_calls = <<>>
    /\ service_calls = <<>>
    /\ handler = [name |-> "none"]

\* no discovery has run
NoRuns == [first |-> <<>>, last |-> <<>>]
IdleDisc == discovered = NoRuns

\* no browse request is being handled
NoRequest == [kind |-> "none"]
NoResult == [status |-> "none"]
IdleBrowse ==
    /\ mass_servers = <<>>
    /\ browse_request = NoRequest
    /\ browse_result = NoResult

\* the library is not looked at
IdlePlayer == mass_library = [playlists |-> <<>>, radios |-> <<>>]

\* no event of the remote server is being handled
NoEvent == [event |-> "none"]
IdleEvents ==
    /\ mass_players = <<>>
    /\ mass_event = NoEvent
    /\ event_effects = <<>>

\* no config flow has been started
NoFlow == [unique_id |-> <<>>]
NoStep == [step_id |-> "none"]
NoFlowResult == [type |-> "none"]
IdleFlow ==
    /\ flow = NoFlow
    /\ flow_step = NoStep
    /\ flow_result = NoFlowResult
    /\ flow_entries = <<>>

\* the parts of the model that have a specification of their own are idle
\* no state-changed listener is running on its own
IdleRace ==
    /\ state_tasks = <<>>
    /\ mass_pushed = EmptyDict

\* the media_player platform is not set up and no event has come
IdleEntities ==
    /\ dispatcher = {}
    /\ media_players = EmptyDict
    /\ added_entities = <<>>
    /\ entity_tasks = <<>>
    /\ players_received = EmptyDict
    /\ players_enumerated = {}
    /\ players_removed = {}
    /\ queue_log = EmptyDict
    /\ events_handled = 0

\* the config entry has not been set up
IdleUnload ==
    /\ entry_state = "not loaded"
    /\ hass_data = {}
    /\ mass_connected = FALSE
    /\ bus_listeners = {}

IdleLater == IdleFlow /\ IdleRace /\ IdleEntities /\ IdleUnload

Init ==
    /\ InitBridge
    /\ browse_item = <<>>
    /\ src = <<>>
    /\ uri = NoUri
    /\ parsed = NotParsed
    /\ IdleDisc
    /\ IdleLater
    /\ IdleEvents
    /\ IdlePlayer
    /\ IdleBrowse

\* the numbers of the remote call that may raise in a loop over n items
FailChoices(n) == 0..n

\* the state-changed listener registered in __init__ runs for the event
RunStateEvent(event, failAt) ==
    LET r == async_hass_state_event(event, registered_controls, failAt)
    IN  /\ mass_calls' = r.calls
        /\ service_calls' = <<>>
        /\ handler' = [name |-> "async_hass_state_event", event |-> event,
                       raised |-> r.raised]
        /\ UNCHANGED <<config_options, registered_controls, mass_controls>>
        /\ UNCHANGED besidesBridge

\* The state machine writes a new state for entity e (the entity appears or
\* changes) and fires state_changed.
StateChanged(e, obj, failAt) ==
    /\ handler.name = "none"
    /\ obj \in StateObjects(e)
    /\ DictGet(hass_states, e, <<>>) # obj
    /\ failAt \in FailChoices(Len(DictGet(registered_controls, e, <<>>)))
    /\ hass_states' = (e :> obj) @@ hass_states
    /\ RunStateEvent([entity_id |-> e, new_state |-> <<obj>>], failAt)

\* Entity e is removed from the state machine: state_changed with new_state None.
StateRemoved(e) ==
    /\ handler.name = "none"
    /\ e \in DOMAIN hass_states
    /\ hass_states' = [x \in DOMAIN hass_states \ {e} |-> hass_states[x]]
    /\ RunStateEvent([entity_id |-> e, new_state |-> <<>>], 0)

RunRegister(options, failAt) ==
    LET r == async_register_player_controls(hass_states, options, registered_controls,
                                            mass_controls, failAt)
    IN  /\ registered_controls' = r.table
        /\ mass_controls' = r.controls
        /\ mass_calls' = r.calls
        /\ service_calls' = <<>>
        /\ handler' = [name |-> "async_register_player_controls",
                       enabled |-> EnabledControls(options), raised |-> r.raised]
        /\ UNCHANGED besidesBridge

\* the ids the options form offers
PowerIds == { ReceiverId \o "_power_" \o s : s \in Range(SourceList) } \cup { AmpId \o "_power" }
VolumeIds == { ReceiverId \o "_volume" }

\* The user saves new options: the update listener async_options_updated of
\* async_setup_entry runs the registration again.
OptionsUpdated(power, volume, failAt) ==
    /\ handler.name = "none"
    /\ power \in SUBSET PowerIds
    /\ volume \in SUBSET VolumeIds
    /\ [power_control_entities |-> power, volume_control_entities |-> volume] # config_options
    /\ failAt \in FailChoices(Cardinality(power \cup volume))
    /\ config_options' = [power_control_entities |-> power, volume_control_entities |-> volume]
    /\ UNCHANGED hass_states
    /\ RunRegister(config_options', failAt)

\* handle_mass_event for EVENT_CONNECTED, as far as the controls go
MassConnected(failAt) ==
    /\ handler.name = "none"
    /\ failAt \in FailChoices(Cardinality(EnabledControls(config_options)))
    /\ UNCHANGED <<hass_states, config_options>>
    /\ RunRegister(config_options, failAt)

\* The remote server calls the cb_func of a control it holds.
SetPlayerControlState(control_id, new_state) ==
    /\ handler.name = "none"
    /\ control_id \in DOMAIN mass_controls
    /\ LET control == mass_controls[control_id]
       IN  /\ new_state \in (IF control.control_type = CONTROL_TYPE_VOLUME
                             THEN VolumeRequests ELSE BOOLEAN)
           /\ service_calls' = async_set_player_control_state(control, new_state, hass_states)
           /\ handler' = [name |-> "async_set_player_control_state",
                          control |-> control, new_state |-> new_state, raised |-> FALSE]
    /\ mass_calls' = <<>>
    /\ UNCHANGED <<hass_states, config_options, registered_controls, mass_controls>>
    /\ UNCHANGED besidesBridge

\* The handler that ran has returned to the event loop (or its exception has
\* been logged there); the record of its calls is dropped.
Return ==
    /\ handler.name # "none"
    /\ handler' = [name |-> "none"]
    /\ mass_calls' = <<>>
    /\ service_calls' = <<>>
    /\ UNCHANGED <<hass_states, config_options, registered_controls, mass_controls>>
    /\ UNCHANGED besidesBridge

Next ==
    \/ \E e \in EntityIds : \E obj \in StateObjects(e) :
          \E f \in FailChoices(Len(DictGet(registered_controls, e, <<>>))) :
             StateChanged(e, obj, f)
    \/ \E e \in EntityIds : StateRemoved(e)
    \/ \E p \in SUBSET PowerIds : \E v \in SUBSET VolumeIds :
          \E f \in FailChoices(Cardinality(p \cup v)) : OptionsUpdated(p, v, f)
    \/ \E f \in FailChoices(Cardinality(EnabledControls(config_options))) : MassConnected(f)
    \/ \E c \in PowerIds : \E n \in BOOLEAN : SetPlayerControlState(c, n)
    \/ \E c \in VolumeIds : \E n \in VolumeRequests : SetPlayerControlState(c, n)
    \/ Return

Spec == Init /\ [][Next]_vars

----------------------------------------------------------------------------
(* The URI codec applied to bounded inputs.                                *)

MaxLen == 2
MaxContentLen == 7

\* the strings over chars of length at most n
Strs(chars, n) == UNION { [1..k -> chars] : k \in 0..n }

ServerIds == { <<"s", "r", "v", "1">> }

\* the catalog items: a media type of the server's items, and a provider and an
\* item_id that may hold the characters the codec gives a meaning to
MediaItems ==
    { [media_type |-> t, provider |-> p, item_id |-> i] :
        t \in {MEDIA_TYPE_ALBUM, MEDIA_TYPE_TRACK, MEDIA_TYPE_RADIO},
        p \in Strs({"a", "/", "#"}, MaxLen),
        i \in Strs({"a", "/", "#"}, MaxLen) }

\* the identifiers a browse request may carry that no BrowseMedia of this
\* model was made for: with any third segment, with an empty one, with none,
\* and without a category
RawUris ==
    LET server == <<"s", "r", "v", "1">>
        tails == { <<"/">> \o MEDIA_TYPE_ALBUM \o <<"/">> \o c :
                     c \in Strs({"a", "#"}, MaxContentLen) }
                 \cup { <<"/">> \o MEDIA_TYPE_ALBUM \o <<"s">>, <<>> }
    IN  { prefix \o server \o t : prefix \in {<<>>, MASS_URI_SCHEME}, t \in tails }

InitUri ==
    /\ InitBridge
    /\ IdleDisc
    /\ IdleLater
    /\ IdleEvents
    /\ IdlePlayer
    /\ IdleBrowse
    /\ src = <<>>
    /\ parsed = NotParsed
    /\ \/ /\ browse_item \in { <<[server_id |-> s, media_item |-> m]>> :
                                  s \in ServerIds, m \in MediaItems }
          /\ uri = NoUri
       \/ /\ browse_item = <<>>
          /\ uri \in { [kind |-> "raw", text |-> u] : u \in RawUris }

\* a listing makes the BrowseMedia of the item
CreateMediaItemSource ==
    /\ browse_item # <<>>
    /\ src = <<>>
    /\ src' = << async_create_media_item_source(browse_item[1].server_id,
                                                 browse_item[1].media_item) >>
    /\ UNCHANGED <<browse_item, uri, parsed>>
    /\ UNCHANGED besidesUri

\* a browse request comes back with the identifier of the BrowseMedia
ParseIdentifier ==
    /\ src # <<>>
    /\ uri' = [kind |-> "identifier", text |-> src[1].identifier]
    /\ parsed' = async_parse_uri(src[1].identifier)
    /\ UNCHANGED <<browse_item, src>>
    /\ UNCHANGED besidesUri

\* a play or browse request comes back with its media_content_id
ParseMediaContentId ==
    /\ src # <<>>
    /\ uri' = [kind |-> "media_content_id", text |-> src[1].media_content_id]
    /\ parsed' = async_parse_uri(src[1].media_content_id)
    /\ UNCHANGED <<browse_item, src>>
    /\ UNCHANGED besidesUri

\* a request carries an identifier from elsewhere
ParseRaw ==
    /\ uri.kind = "raw"
    /\ parsed = NotParsed
    /\ parsed' = async_parse_uri(uri.text)
    /\ UNCHANGED <<browse_item, src, uri>>
    /\ UNCHANGED besidesUri

NextUri ==
    \/ CreateMediaItemSource
    \/ ParseIdentifier
    \/ ParseMediaContentId
    \/ ParseRaw

SpecUri == InitUri /\ [][NextUri]_vars

----------------------------------------------------------------------------
(* Discovery run over populations of local entities.                       *)

MaxEntities == 3

\* a State of the state machine, as far as discovery reads it
DiscState(id, domain, name, attributes) ==
    [entity_id |-> id, domain |-> domain, name |-> name, state |-> "on",
     attributes |-> attributes]

\* the entities a population is drawn from: a media player whose source list
\* is absent, empty or holds two sources (different, equal, or one of them
\* empty), or that is a player of the remote server itself; a media player
\* with a source named "power" next to one named after it; a switch; and an
\* entity of a domain that discovery does not ask for
DiscObjects ==
    { DiscState(ReceiverId, MEDIA_PLAYER_DOMAIN, "Receiver", a) :
        a \in { EmptyDict,
                [mass_player_id |-> "player1"],
                [source_list |-> <<>>],
                [source_list |-> SourceList],
                [source_list |-> <<"TV", "TV">>],
                [source_list |-> <<"", "TV">>] } }
    \cup { DiscState("media_player.amp", MEDIA_PLAYER_DOMAIN, "Amp",
                     [source_list |-> <<"power">>]),
           DiscState("media_player.amp_power", MEDIA_PLAYER_DOMAIN, "Amp power", EmptyDict),
           DiscState(AmpId, SWITCH_DOMAIN, "Amp", EmptyDict),
           DiscState("sensor.temp", "sensor", "Temp", EmptyDict) }

DiscIds == { o.entity_id : o \in DiscObjects }

\* the populations: at most MaxEntities entities, one State per entity_id
DiscPopulations ==
    UNION { { f \in [ids -> DiscObjects] : \A e \in ids : f[e].entity_id = e } :
              ids \in { s \in SUBSET DiscIds : Cardinality(s) <= MaxEntities } }

\* the orders in which a set may be listed
Orders(S) ==
    { f \in [1..Cardinality(S) -> S] :
        \A i, j \in 1..Cardinality(S) : i # j => f[i] # f[j] }

InitDisc ==
    /\ hass_states \in DiscPopulations
    /\ config_options = [power_control_entities |-> {}, volume_control_entities |-> {}]
    /\ registered_controls = EmptyDict
    /\ mass_controls = EmptyDict
    /\ mass_calls = <<>>
    /\ service_calls = <<>>
    /\ handler = [name |-> "none"]
    /\ browse_item = <<>>
    /\ src = <<>>
    /\ uri = NoUri
    /\ parsed = NotParsed
    /\ IdleDisc
    /\ IdleLater
    /\ IdleEvents
    /\ IdlePlayer
    /\ IdleBrowse

\* async_get_playercontrol_entities runs (for the options form or for a
\* registration) while hass.states.async_all lists the entities in this order
Discover(order) ==
    LET run == [order |-> order, controls |-> ControlsOver(hass_states, order, 1)]
    IN  /\ discovered' = IF discovered.first = <<>>
                          THEN [discovered EXCEPT !.first = <<run>>]
                          ELSE [discovered EXCEPT !.last = <<run>>]
        /\ UNCHANGED hass_states
        /\ UNCHANGED besidesDisc

NextDisc == \E order \in Orders(DOMAIN hass_states) : Discover(order)

SpecDisc == InitDisc /\ [][NextDisc]_vars

----------------------------------------------------------------------------
(* The event dispatcher: handle_mass_event of async_setup_entry.           *)

\* the event names of musicassistant_client and the dispatcher topics of
\* const.py, each standing for itself
EVENT_CONNECTED == "EVENT_CONNECTED"
EVENT_PLAYER_ADDED == "EVENT_PLAYER_ADDED"
EVENT_PLAYER_CHANGED == "EVENT_PLAYER_CHANGED"
EVENT_PLAYER_REMOVED == "EVENT_PLAYER_REMOVED"
EVENT_QUEUE_UPDATED == "EVENT_QUEUE_UPDATED"
DISPATCH_KEY_PLAYERS == "DISPATCH_KEY_PLAYERS"
DISPATCH_KEY_QUEUE_UPDATE == "DISPATCH_KEY_QUEUE_UPDATE"
DISPATCH_KEY_PLAYER_REMOVED == "DISPATCH_KEY_PLAYER_REMOVED"

SUBSCRIBE_EVENTS ==
    {EVENT_CONNECTED, EVENT_PLAYER_ADDED, EVENT_PLAYER_CHANGED,
     EVENT_PLAYER_REMOVED, EVENT_QUEUE_UPDATED}

\* async_dispatcher_send(hass, topic, payload)
DispatcherSend(topic, payload) ==
    [method |-> "async_dispatcher_send", topic |-> topic, payload |-> payload]

\* every event sent on the players topic
TopicOfPlayersOnly(event) == DISPATCH_KEY_PLAYERS

\* lines 67-72: the topic of the branch taken for an event that is relayed,
\* None for an event that no such branch takes
TopicOf(event) ==
    IF event \in {EVENT_PLAYER_ADDED, EVENT_PLAYER_CHANGED} THEN DISPATCH_KEY_PLAYERS
    ELSE IF event = EVENT_QUEUE_UPDATED THEN DISPATCH_KEY_QUEUE_UPDATE
    ELSE IF event = EVENT_PLAYER_REMOVED THEN DISPATCH_KEY_PLAYER_REMOVED
    ELSE None

\* a dispatch for the available players only
PlayerDispatchesAvailableOnly(players) ==
    LET available == SelectSeq(players, LAMBDA player : player.available)
    IN  [i \in 1..Len(available) |-> DispatcherSend(DISPATCH_KEY_PLAYERS, available[i])]

\* lines 76-77: one dispatch per player of the list
PlayerDispatches(players) ==
    [i \in 1..Len(players) |-> DispatcherSend(DISPATCH_KEY_PLAYERS, players[i])]

\* handle_mass_event.  get_players_raises and failAt say which remote call
\* raises; the result holds the effects in order, the bridge's table and
\* the server's controls after the call, and whether the call raised.
handle_mass_event(event, event_details, players, states, options, table, controls, get_players_raises, failAt) ==
    LET same == [effects |-> <<>>, table |-> table, controls |-> controls,
                 calls |-> <<>>, raised |-> FALSE]
        get_players == [method |-> "get_players"]
    IN  IF event \in {EVENT_PLAYER_ADDED, EVENT_PLAYER_CHANGED, EVENT_QUEUE_UPDATED,
                      EVENT_PLAYER_REMOVED}
        THEN [same EXCEPT !.effects = <<DispatcherSend(TopicOf(event), event_details)>>]
        ELSE IF event = EVENT_CONNECTED
        THEN IF get_players_raises
             THEN [same EXCEPT !.effects = <<get_players>>, !.calls = <<get_players>>,
                               !.raised = TRUE]
             ELSE LET r == async_register_player_controls(states, options, table,
                                                          controls, failAt)
                  IN  [effects |-> <<get_players>> \o PlayerDispatches(players)
                                   \o <<[method |-> "async_register_player_controls",
                                         calls |-> r.calls]>>,
                       table |-> r.table,
                       controls |-> r.controls,
                       calls |-> <<get_players>> \o r.calls,
                       raised |-> r.raised]
        ELSE same

MaxPlayers == 2

\* the player payloads of the remote server
PlayerPayloads ==
    { [player_id |-> "player1", available |-> TRUE],
      [player_id |-> "player2", available |-> FALSE] }

\* the events the server sends with their details, and an event of a kind
\* that handle_mass_event has no branch for
MassEvents ==
    { [event |-> e, details |-> d] :
        e \in {EVENT_PLAYER_ADDED, EVENT_PLAYER_CHANGED}, d \in PlayerPayloads }
    \cup { [event |-> EVENT_QUEUE_UPDATED,
            details |-> [queue_id |-> "player1", cur_item |-> None]],
           [event |-> EVENT_PLAYER_REMOVED, details |-> "player1"],
           [event |-> EVENT_CONNECTED, details |-> None],
           [event |-> "EVENT_QUEUE_TIME_UPDATED",
            details |-> [queue_id |-> "player1", cur_item_time |-> 1]] }

InitEvents ==
    /\ hass_states \in [{ReceiverId} -> ReceiverStates]
    /\ config_options \in
          { [power_control_entities |-> {}, volume_control_entities |-> {}],
            [power_control_entities |-> {ReceiverId \o "_power_TV"},
             volume_control_entities |-> {ReceiverId \o "_volume"}] }
    /\ registered_controls = EmptyDict
    /\ mass_controls = EmptyDict
    /\ mass_calls = <<>>
    /\ service_calls = <<>>
    /\ handler = [name |-> "none"]
    /\ browse_item = <<>>
    /\ src = <<>>
    /\ uri = NoUri
    /\ parsed = NotParsed
    /\ IdleDisc
    /\ IdleLater
    /\ IdlePlayer
    /\ IdleBrowse
    /\ mass_players \in UNION { [1..n -> PlayerPayloads] : n \in 0..MaxPlayers }
    /\ mass_event = NoEvent
    /\ event_effects = <<>>

\* The client calls the callback registered in line 81 with an event.
HandleMassEvent(ev, get_players_raises, failAt) ==
    /\ handler.name = "none"
    /\ ev \in MassEvents
    /\ (ev.event # EVENT_CONNECTED) => (~get_players_raises /\ failAt = 0)
    /\ get_players_raises => failAt = 0
    /\ failAt \in FailChoices(Cardinality(EnabledControls(config_options)))
    /\ LET r == handle_mass_event(ev.event, ev.details, mass_players, hass_states,
                                  config_options, registered_controls, mass_controls,
                                  get_players_raises, failAt)
       IN  /\ mass_event' = ev
           /\ event_effects' = r.effects
           /\ registered_controls' = r.table
           /\ mass_controls' = r.controls
           /\ mass_calls' = r.calls
           /\ handler' = [name |-> "handle_mass_event",
                          get_players_raises |-> get_players_raises,
                          raised |-> r.raised]
    /\ UNCHANGED besidesEvents

\* handle_mass_event has returned (or its exception has been logged)
EventReturn ==
    /\ handler.name = "handle_mass_event"
    /\ handler' = [name |-> "none"]
    /\ mass_calls' = <<>>
    /\ mass_event' = NoEvent
    /\ event_effects' = <<>>
    /\ UNCHANGED <<registered_controls, mass_controls>>
    /\ UNCHANGED besidesEvents

NextEvents ==
    \/ \E ev \in MassEvents, get_players_raises \in BOOLEAN,
          failAt \in FailChoices(Cardinality(EnabledControls(config_options))) :
          HandleMassEvent(ev, get_players_raises, failAt)
    \/ EventReturn

SpecEvents == InitEvents /\ [][NextEvents]_vars

----------------------------------------------------------------------------
(* The entity facade: the commands of MassPlayer (media_player.py).        *)

PLAYABLE_MEDIA_TYPES ==
    {MEDIA_TYPE_PLAYLIST, MEDIA_TYPE_ALBUM, MEDIA_TYPE_ARTIST, MEDIA_TYPE_RADIO,
     MEDIA_TYPE_TRACK}

\* `sub in s` for two str
Contains(s, sub) == Find(s, sub, 1) # 0

\* self.player_id of the entity
PlayerId == "player1"

\* the methods that send one transport command, with the command they send
TransportCommands ==
    [async_media_play |-> "play", async_media_pause |-> "pause",
     async_media_stop |-> "stop", async_media_next_track |-> "next",
     async_media_previous_track |-> "previous", async_volume_up |-> "volume_up",
     async_volume_down |-> "volume_down", async_turn_on |-> "power_on",
     async_turn_off |-> "power_off"]

\* self._mass.player_command(self.player_id, cmd, args), args being optional
PlayerCommand(cmd, args) ==
    [method |-> "player_command", player_id |-> PlayerId, cmd |-> cmd, args |-> args]

\* self._mass.play_media(self.player_id, media, queue_opt)
PlayMediaCall(media, queue_opt) ==
    [method |-> "play_media", player_id |-> PlayerId, media |-> media,
     queue_opt |-> queue_opt]

\* the loop over the library items without its break
RECURSIVE PlayEveryNamed(_, _, _, _)
PlayEveryNamed(items, i, name, queue_opt) ==
    IF i > Len(items) THEN <<>>
    ELSE (IF items[i].name = name THEN <<PlayMediaCall(items[i], queue_opt)>> ELSE <<>>)
         \o PlayEveryNamed(items, i + 1, name, queue_opt)

\* lines 388-391 and 394-397: the first library item of that name is played
RECURSIVE PlayFirstNamed(_, _, _, _)
PlayFirstNamed(items, i, name, queue_opt) ==
    IF i > Len(items) THEN <<>>
    ELSE IF items[i].name = name THEN <<PlayMediaCall(items[i], queue_opt)>>
    ELSE PlayFirstNamed(items, i + 1, name, queue_opt)

\* async_play_media: the remote calls it makes, and whether it raises
async_play_media(media_type, media_id, enqueue, library) ==
    LET queue_opt == IF enqueue THEN "add" ELSE "play"
        made(calls) == [calls |-> calls, raised |-> FALSE]
        raises == [calls |-> <<>>, raised |-> TRUE]
    IN  IF StartsWith(media_id, MASS_URI_SCHEME)
        THEN LET media == async_parse_uri(media_id)
             IN  IF media.status # "ok" THEN raises
                 ELSE made(<<PlayMediaCall(
                                [k \in DOMAIN media \ {"status"} |-> media[k]], queue_opt)>>)
        ELSE IF media_type \in PLAYABLE_MEDIA_TYPES /\ Contains(media_id, ITEM_ID_SEPERATOR)
        THEN LET pair == Split(media_id, ITEM_ID_SEPERATOR)
             IN  IF Len(pair) # 2 THEN raises
                 ELSE made(<<PlayMediaCall([media_type |-> media_type, item_id |-> pair[2],
                                            provider |-> pair[1]], queue_opt)>>)
        ELSE IF ~Contains(media_id, <<"/">>) /\ media_type = MEDIA_TYPE_PLAYLIST
        THEN made(<<[method |-> "get_library_playlists"]>>
                  \o PlayFirstNamed(library.playlists, 1, media_id, queue_opt))
        ELSE IF ~Contains(media_id, <<"/">>) /\ media_type = MEDIA_TYPE_RADIO
        THEN made(<<[method |-> "get_library_radios"]>>
                  \o PlayFirstNamed(library.radios, 1, media_id, queue_opt))
        ELSE IF Contains(media_id, <<"t", "t", "s", "_", "p", "r", "o", "x", "y">>)
        THEN made(<<[method |-> "play_alert", player_id |-> PlayerId,
                     media_id |-> media_id, announce |-> TRUE]>>)
        ELSE IF Contains(media_type, <<"a", "l", "e", "r", "t">>)
        THEN made(<<[method |-> "play_alert", player_id |-> PlayerId,
                     media_id |-> media_id, volume |-> 5, announce |-> FALSE]>>)
        ELSE made(<<[method |-> "play_uri", player_id |-> PlayerId,
                     media_id |-> media_id, queue_opt |-> queue_opt]>>)

\* the levels the user sets: 0.0, 0.5 and 1.0
VolumeLevels == {Ratio(0, 1), Ratio(1, 2), Ratio(1, 1)}

\* the libraries of the server: no item, one named "mix", and three of which
\* two are named "mix"
LibraryItems(media_type) ==
    LET item(name, id) == [name |-> name, item_id |-> id, provider |-> "database",
                           media_type |-> media_type]
        mix == <<"m", "i", "x">>
    IN  { <<>>, <<item(mix, "1")>>,
          <<item(<<"a">>, "1"), item(mix, "2"), item(mix, "3")>> }

\* the media types and media ids of the play requests: one pair and more for
\* every branch of async_play_media
PlayMediaTypes ==
    {MEDIA_TYPE_PLAYLIST, MEDIA_TYPE_ALBUM, MEDIA_TYPE_RADIO,
     <<"m", "u", "s", "i", "c">>, <<"a", "l", "e", "r", "t">>}

PlayMediaIds ==
    LET server == <<"s", "r", "v", "1">>
        a == <<"a">>
    IN  { MASS_URI_SCHEME \o server \o <<"/">> \o MEDIA_TYPE_ALBUM \o <<"/">>
            \o a \o ITEM_ID_SEPERATOR \o a,
          MASS_URI_SCHEME \o server,
          a \o ITEM_ID_SEPERATOR \o a,
          a \o ITEM_ID_SEPERATOR \o a \o ITEM_ID_SEPERATOR \o a,
          <<"m", "i", "x">>,
          <<"n", "o">>,
          <<"a", "/", "b">>,
          <<"t", "t", "s", "_", "p", "r", "o", "x", "y">> }

InitPlayer ==
    /\ InitBridge
    /\ browse_item = <<>>
    /\ src = <<>>
    /\ uri = NoUri
    /\ parsed = NotParsed
    /\ IdleDisc
    /\ IdleLater
    /\ IdleEvents
    /\ IdleBrowse
    /\ mass_library \in [playlists : LibraryItems(MEDIA_TYPE_PLAYLIST),
                          radios : LibraryItems(MEDIA_TYPE_RADIO)]

\* one method of the entity runs and makes these calls
RunPlayerMethod(name, args, calls, raised) ==
    /\ handler.name = "none"
    /\ handler' = [name |-> name, args |-> args, raised |-> raised]
    /\ mass_calls' = calls
    /\ UNCHANGED besidesPlayer

\* async_media_play, async_media_pause, async_media_stop,
\* async_media_next_track, async_media_previous_track, async_volume_up,
\* async_volume_down, async_turn_on, async_turn_off
MediaCommand(method) ==
    RunPlayerMethod(method, <<>>, <<PlayerCommand(TransportCommands[method], <<>>)>>, FALSE)

\* async_set_volume_level
SetVolumeLevel(volume) ==
    LET level == FloorDiv(volume.num * 100, volume.den)
    IN  RunPlayerMethod("async_set_volume_level", <<volume>>,
                        <<PlayerCommand("volume_set", <<[volume_level |-> level]>>)>>, FALSE)

\* async_mute_volume
MuteVolume(mute) ==
    RunPlayerMethod("async_mute_volume", <<mute>>,
                    <<PlayerCommand("volume_mute", <<[is_muted |-> mute]>>)>>, FALSE)

\* async_set_shuffle
SetShuffle(shuffle) ==
    RunPlayerMethod("async_set_shuffle", <<shuffle>>,
                    <<[method |-> "player_queue_set_shuffle", player_id |-> PlayerId,
                       shuffle |-> shuffle]>>, FALSE)

\* async_clear_playlist
ClearPlaylist ==
    RunPlayerMethod("async_clear_playlist", <<>>,
                    <<[method |-> "player_queue_clear", player_id |-> PlayerId]>>, FALSE)

\* async_play_media
PlayMedia(media_type, media_id, enqueue) ==
    LET r == async_play_media(media_type, media_id, enqueue, mass_library)
    IN  RunPlayerMethod("async_play_media",
                        [media_type |-> media_type, media_id |-> media_id,
                         enqueue |-> enqueue],
                        r.calls, r.raised)

NextPlayer ==
    \/ \E method \in DOMAIN TransportCommands : MediaCommand(method)
    \/ \E volume \in VolumeLevels : SetVolumeLevel(volume)
    \/ \E mute \in BOOLEAN : MuteVolume(mute)
    \/ \E shuffle \in BOOLEAN : SetShuffle(shuffle)
    \/ ClearPlaylist
    \/ \E media_type \in PlayMediaTypes, media_id \in PlayMediaIds, enqueue \in BOOLEAN :
          PlayMedia(media_type, media_id, enqueue)
    \/ Return

SpecPlayer == InitPlayer /\ [][NextPlayer]_vars

----------------------------------------------------------------------------
(* The browse tree of media_source.py.  A BrowseMedia is a record of its   *)
(* identifier, its title and its children; a server is a record of its     *)
(* server_id, its server_name, its library (the items of each category)    *)
(* and the contents of its playlists, albums and artists.                  *)

\* DEFAULT_NAME of const.py, standing for itself
DEFAULT_NAME == "DEFAULT_NAME"

\* LIBRARY_MAP, in the order of its items
LIBRARY_MAP ==
    << [media_type |-> MEDIA_TYPE_PLAYLIST \o <<"s">>, title |-> "Playlists"],
       [media_type |-> MEDIA_TYPE_ARTIST \o <<"s">>, title |-> "Artists"],
       [media_type |-> MEDIA_TYPE_ALBUM \o <<"s">>, title |-> "Albums"],
       [media_type |-> MEDIA_TYPE_TRACK \o <<"s">>, title |-> "Tracks"],
       [media_type |-> MEDIA_TYPE_RADIO \o <<"s">>, title |-> "Radios"] >>

\* LIBRARY_MAP.get(key)
LibraryTitle(key) ==
    IF \E i \in 1..Len(LIBRARY_MAP) : LIBRARY_MAP[i].media_type = key
    THEN LIBRARY_MAP[CHOOSE i \in 1..Len(LIBRARY_MAP) : LIBRARY_MAP[i].media_type = key].title
    ELSE None

RootMarker == <<"/", "r", "o", "o", "t">>

\* str.endswith
EndsWith(s, suffix) ==
    Len(s) >= Len(suffix) /\ SubSeq(s, Len(s) - Len(suffix) + 1, Len(s)) = suffix

\* sep.join(names)
RECURSIVE Join(_, _)
Join(names, sep) ==
    IF names = <<>> THEN ""
    ELSE IF Len(names) = 1 THEN names[1]
    ELSE names[1] \o sep \o Join(Tail(names), sep)

\* lines 275-282: the value of title after line 276 (unbound unless the
\* item is an album) and after the if/else of lines 277-282, which assigns
\* it in both branches
MediaItemTitle(media_item) ==
    LET media_type == media_item.media_type
        name == media_item.name
        after_276 == IF media_type = MEDIA_TYPE_ALBUM
                     THEN <<media_item.artist.name \o " - " \o name>> ELSE <<>>
        artist_names == [i \in 1..Len(media_item.artists) |-> media_item.artists[i].name]
        after_282 == IF media_type = MEDIA_TYPE_TRACK
                     THEN <<Join(artist_names, " / ") \o " - " \o name>>
                     ELSE <<name>>
    IN  after_282[1]

\* the exception that async_create_media_item_source raises for an item
\* (a subscript with a key the dict lacks), None if it returns
MediaItemError(media_item) ==
    LET has(key) == key \in DOMAIN media_item
    IN  IF ~has("media_type") THEN "KeyError"
        ELSE IF media_item.media_type \notin ContentTypes THEN "KeyError"
        ELSE IF media_item.media_type = MEDIA_TYPE_ALBUM /\ ~(has("artist") /\ has("name"))
        THEN "KeyError"
        ELSE IF media_item.media_type = MEDIA_TYPE_TRACK /\ ~has("artists") THEN "KeyError"
        ELSE IF ~(has("name") /\ has("provider") /\ has("item_id")) THEN "KeyError"
        ELSE None

\* the BrowseMedia that async_create_media_item_source returns
MediaItemSource(server_id, media_item) ==
    async_create_media_item_source(server_id, media_item)
        @@ [title |-> MediaItemTitle(media_item), children |-> <<>>]

async_create_server_listing(mass) ==
    [identifier |-> mass.server_id \o RootMarker,
     title |-> DEFAULT_NAME \o " (" \o mass.server_name \o ")",
     children |-> [i \in 1..Len(LIBRARY_MAP) |->
                    [identifier |-> mass.server_id \o <<"/">> \o LIBRARY_MAP[i].media_type,
                     title |-> LIBRARY_MAP[i].title,
                     children |-> <<>>]]]

async_create_root_listing(servers) ==
    IF Len(servers) = 1 THEN async_create_server_listing(servers[1])
    ELSE [identifier |-> <<"r", "o", "o", "t">>,
          title |-> "Root",
          children |-> [i \in 1..Len(servers) |-> async_create_server_listing(servers[i])]]

\* get_library_playlists, get_library_artists, get_library_albums,
\* get_library_tracks, get_library_radios
GetLibrary(mass, category) ==
    CASE category = MEDIA_TYPE_PLAYLIST \o <<"s">> -> mass.library.playlists
      [] category = MEDIA_TYPE_ARTIST \o <<"s">> -> mass.library.artists
      [] category = MEDIA_TYPE_ALBUM \o <<"s">> -> mass.library.albums
      [] category = MEDIA_TYPE_TRACK \o <<"s">> -> mass.library.tracks
      [] category = MEDIA_TYPE_RADIO \o <<"s">> -> mass.library.radios

\* get_playlist, get_album, get_artist for an item the server has
GetItem(mass, media_type, item_id, provider) ==
    LET found == SelectSeq(GetLibrary(mass, media_type \o <<"s">>),
                           LAMBDA i : i.item_id = item_id /\ i.provider = provider)
    IN  found[1]

\* get_playlist_tracks, get_album_tracks, get_artist_albums
GetContents(mass, item_id, provider) == DictGet(mass.contents, item_id, <<>>)

async_create_generic_source(mass, media_item) ==
    [identifier |-> mass.server_id \o <<"/">> \o media_item.media_type
                      \o <<"/">> \o media_item.content_id,
     title |-> LibraryTitle(media_item.content_id),
     children |-> <<>>]

\* async_create_item_listing: the source with its children (status "ok") or
\* the exception raised
async_create_item_listing(mass, media_item) ==
    LET media_type == media_item.media_type
        library == \E i \in 1..Len(LIBRARY_MAP) : LIBRARY_MAP[i].media_type = media_type
        single == media_type \in {MEDIA_TYPE_PLAYLIST, MEDIA_TYPE_ALBUM, MEDIA_TYPE_ARTIST}
        parent == GetItem(mass, media_type, media_item.item_id, media_item.provider)
        items == IF library THEN GetLibrary(mass, media_type)
                 ELSE IF single
                 THEN GetContents(mass, media_item.item_id, media_item.provider)
                 ELSE <<>>
        source_error == IF single THEN MediaItemError(parent)
                        ELSE IF media_type \notin ContentTypes THEN "KeyError"
                        ELSE None
        source == IF single THEN MediaItemSource(mass.server_id, parent)
                  ELSE async_create_generic_source(mass, media_item)
    IN  IF source_error # None THEN [status |-> source_error]
        ELSE IF \E i \in 1..Len(items) : MediaItemError(items[i]) # None
        THEN [status |-> "KeyError"]
        ELSE [status |-> "ok",
              source |-> [source EXCEPT !.children =
                            [i \in 1..Len(items) |->
                               MediaItemSource(mass.server_id, items[i])]]]

\* the servers of the registry with this server_id, in the registry's order
ServersWithId(servers, mass_id) ==
    SelectSeq(servers, LAMBDA mass : mass.server_id = mass_id)

\* MusicAssistentSource.async_browse_media for item.identifier (None: <<>>)
async_browse_media(identifier, servers) ==
    IF identifier = <<>>
    THEN [status |-> "ok", source |-> async_create_root_listing(servers)]
    ELSE IF EndsWith(identifier[1], RootMarker)
    THEN LET mass_id == Split(identifier[1], <<"/">>)[2]
             found == ServersWithId(servers, mass_id)
         IN  IF found # <<>>
             THEN [status |-> "ok", source |-> async_create_server_listing(found[1])]
             ELSE [status |-> "BrowseError"]
    ELSE LET media_item == async_parse_uri(identifier[1])
         IN  IF media_item.status # "ok" THEN [status |-> media_item.status]
             ELSE LET found == ServersWithId(servers, media_item.mass_id)
                  IN  IF found # <<>> THEN async_create_item_listing(found[1], media_item)
                      ELSE [status |-> "BrowseError"]

\* MassPlayer.async_browse_media of an entity of server mass; a
\* media_content_id that is None is <<>>
MassPlayer_async_browse_media(mass, media_content_type, media_content_id) ==
    IF media_content_type \in {None, "library"}
    THEN [status |-> "ok", source |-> async_create_server_listing(mass)]
    ELSE IF media_content_id = <<>> THEN [status |-> "AttributeError"]
    ELSE IF EndsWith(media_content_id[1], RootMarker)
    THEN [status |-> "ok", source |-> async_create_server_listing(mass)]
    ELSE IF StartsWith(media_content_id[1], MASS_URI_SCHEME)
    THEN LET media_item == async_parse_uri(media_content_id[1])
         IN  IF media_item.status # "ok" THEN [status |-> media_item.status]
             ELSE IF mass.server_id # media_item.mass_id THEN [status |-> "BrowseError"]
             ELSE async_create_item_listing(mass, media_item)
    ELSE [status |-> "ok", source |-> None]

\* the servers: one with an item of every category, one with an empty library
Server1 ==
    LET provider == <<"p">>
        album == [media_type |-> MEDIA_TYPE_ALBUM, provider |-> provider,
                  item_id |-> <<"a", "1">>, name |-> "Jazz",
                  artist |-> [name |-> "Queen"]]
        track == [media_type |-> MEDIA_TYPE_TRACK, provider |-> provider,
                  item_id |-> <<"t", "1">>, name |-> "Under Pressure",
                  artists |-> <<[name |-> "Queen"], [name |-> "David Bowie"]>>]
        solo == [media_type |-> MEDIA_TYPE_TRACK, provider |-> provider,
                 item_id |-> <<"t", "2">>, name |-> "Heroes",
                 artists |-> <<[name |-> "David Bowie"]>>]
        artist == [media_type |-> MEDIA_TYPE_ARTIST, provider |-> provider,
                   item_id |-> <<"r", "1">>, name |-> "Queen"]
        playlist == [media_type |-> MEDIA_TYPE_PLAYLIST, provider |-> provider,
                     item_id |-> <<"l", "1">>, name |-> "Mix"]
        radio == [media_type |-> MEDIA_TYPE_RADIO, provider |-> provider,
                  item_id |-> <<"d", "1">>, name |-> "Radio 1"]
    IN  [server_id |-> <<"s", "r", "v", "1">>,
         server_name |-> "First",
         library |-> [playlists |-> <<playlist>>, artists |-> <<artist>>,
                      albums |-> <<album>>, tracks |-> <<track, solo>>,
                      radios |-> <<radio>>],
         contents |-> (album.item_id :> <<track>>) @@ (artist.item_id :> <<album>>)
                      @@ (playlist.item_id :> <<track, solo>>)]

Server2 ==
    [server_id |-> <<"s", "r", "v", "2">>,
     server_name |-> "Second",
     library |-> [playlists |-> <<>>, artists |-> <<>>, albums |-> <<>>,
                  tracks |-> <<>>, radios |-> <<>>],
     contents |-> EmptyDict]

\* a server whose library holds, among well-formed items, an album without
\* its artist, a track without its artists and an item of a media type that
\* CONTENT_TYPE_MEDIA_CLASS has no key for
Server3 ==
    LET provider == <<"p">>
        album == [media_type |-> MEDIA_TYPE_ALBUM, provider |-> provider,
                  item_id |-> <<"a", "1">>, name |-> "Low",
                  artist |-> [name |-> "David Bowie"]]
        orphan == [media_type |-> MEDIA_TYPE_ALBUM, provider |-> provider,
                   item_id |-> <<"a", "2">>, name |-> "Untitled"]
        track == [media_type |-> MEDIA_TYPE_TRACK, provider |-> provider,
                  item_id |-> <<"t", "1">>, name |-> "Heroes",
                  artists |-> <<[name |-> "David Bowie"]>>]
        anonymous == [media_type |-> MEDIA_TYPE_TRACK, provider |-> provider,
                      item_id |-> <<"t", "2">>, name |-> "Untitled"]
        genre == [media_type |-> <<"g", "e", "n", "r", "e">>, provider |-> provider,
                  item_id |-> <<"g", "1">>, name |-> "Rock"]
        radio == [media_type |-> MEDIA_TYPE_RADIO, provider |-> provider,
                  item_id |-> <<"d", "1">>, name |-> "Radio 3"]
    IN  [server_id |-> <<"s", "r", "v", "3">>,
         server_name |-> "Third",
         library |-> [playlists |-> <<>>, artists |-> <<>>,
                      albums |-> <<orphan, album>>, tracks |-> <<track, anonymous>>,
                      radios |-> <<radio, genre>>],
         contents |-> EmptyDict]

\* the registries: no server, one, or two in either order
Registries ==
    { <<>>, <<Server1>>, <<Server2>>, <<Server3>>, <<Server1, Server2>>,
      <<Server2, Server1>>, <<Server1, Server3>> }

\* the identifiers that the nodes of a listing carry, the node's included
RECURSIVE NodeIdentifiers(_)
NodeIdentifiers(source) ==
    {source.identifier}
    \cup UNION { NodeIdentifiers(source.children[i]) : i \in 1..Len(source.children) }

\* the identifiers of the browse requests: None, those of the nodes of the
\* root listing and of the listings below it, the same for a server that is
\* not in the registry, and a category that no server has
BrowseIdentifiers ==
    LET all == <<Server1, Server2>>
        top == NodeIdentifiers(async_create_root_listing(all))
        below == UNION { UNION { NodeIdentifiers(
                            async_create_item_listing(all[i],
                                [media_type |-> LIBRARY_MAP[k].media_type,
                                 content_id |-> <<>>]).source) :
                            k \in 1..Len(LIBRARY_MAP) } : i \in 1..Len(all) }
    IN  {<<>>}
        \cup { <<id>> : id \in top \cup below }
        \cup { <<Server1.server_id \o <<"/", "g", "e", "n", "r", "e", "s">> >> }
        \cup { <<id>> : id \in NodeIdentifiers(async_create_server_listing(Server3)) }

\* the requests an entity's browse method gets: the media browser opened,
\* and a node of the entity's listing or of another server's opened
PlayerBrowseRequests ==
    { [media_content_type |-> None, media_content_id |-> <<>>],
      [media_content_type |-> "library", media_content_id |-> <<>>] }
    \cup { [media_content_type |-> "audio", media_content_id |-> <<MASS_URI_SCHEME \o id[1]>>] :
             id \in BrowseIdentifiers \ {<<>>} }

InitBrowse ==
    /\ InitBridge
    /\ browse_item = <<>>
    /\ src = <<>>
    /\ uri = NoUri
    /\ parsed = NotParsed
    /\ IdleDisc
    /\ IdleLater
    /\ IdleEvents
    /\ IdlePlayer
    /\ mass_servers \in Registries
    /\ browse_request = NoRequest
    /\ browse_result = NoResult

\* the media browser asks the media source for a node
BrowseMedia(identifier) ==
    /\ browse_request = NoRequest
    /\ browse_request' = [kind |-> "media_source", identifier |-> identifier]
    /\ browse_result' = async_browse_media(identifier, mass_servers)
    /\ UNCHANGED besidesBrowse

\* the media browser asks an entity of the server mass for a node
PlayerBrowseMedia(mass, request) ==
    /\ browse_request = NoRequest
    /\ mass \in Range(mass_servers)
    /\ browse_request' = [kind |-> "media_player", mass |-> mass,
                             media_content_type |-> request.media_content_type,
                             media_content_id |-> request.media_content_id]
    /\ browse_result' = MassPlayer_async_browse_media(mass, request.media_content_type,
                                                       request.media_content_id)
    /\ UNCHANGED besidesBrowse

\* the result has been handed to the media browser
BrowseReturn ==
    /\ browse_request # NoRequest
    /\ browse_request' = NoRequest
    /\ browse_result' = NoResult
    /\ UNCHANGED besidesBrowse

NextBrowse ==
    \/ \E identifier \in BrowseIdentifiers : BrowseMedia(identifier)
    \/ \E mass \in Range(mass_servers), request \in PlayerBrowseRequests :
          PlayerBrowseMedia(mass, request)
    \/ BrowseReturn

SpecBrowse == InitBrowse /\ [][NextBrowse]_vars

----------------------------------------------------------------------------
(* Properties of the player-control bridge.                                *)

RanRegister == handler.name = "async_register_player_controls"
RanStateEvent == handler.name = "async_hass_state_event"
RanSetState == handler.name = "async_set_player_control_state"

\* the ids of the controls held in the registered-controls table
RegisteredIds ==
    { c.control_id : c \in UNION { Range(registered_controls[e]) : e \in DOMAIN registered_controls } }

\* C1: after a registration run that returned, the registered-controls table
\* holds no control whose id is outside the enabled-set of that run, and a
\* state change pushes an update for no control outside the enabled-set.
C1_ReRegistrationSupersedes ==
    /\ (RanRegister /\ ~handler.raised) => RegisteredIds \subseteq handler.enabled
    /\ RanStateEvent =>
          \A i \in 1..Len(mass_calls) :
              mass_calls[i].control_id \in EnabledControls(config_options)

SourcedPowerRequest(new_state) ==
    /\ RanSetState
    /\ handler.control.control_type = CONTROL_TYPE_POWER
    /\ handler.control.source # ""
    /\ handler.new_state = new_state
    /\ handler.control.entity_id \in DOMAIN hass_states

\* C2: a power-on request for a sourced power control whose entity exists
\* makes exactly one service call, select_source with the control's source,
\* whatever the entity's state and selected source.
C2_PowerOnSelectsSource ==
    SourcedPowerRequest(TRUE) =>
        service_calls =
            << [domain |-> hass_states[handler.control.entity_id].domain,
                service |-> "select_source",
                data |-> [entity_id |-> handler.control.entity_id,
                          source |-> handler.control.source]] >>

\* the entity's currently selected source is s
SelectedSourceIs(e, s) ==
    /\ "source" \in DOMAIN hass_states[e].attributes
    /\ hass_states[e].attributes.source = s

\* C3: every state reported to the remote server for a sourced power control,
\* at registration or on a state change, is on iff the entity's currently
\* selected source is the control's source.
C3_SourcedStateIsSourceMatch ==
    \A i \in 1..Len(mass_calls) : \A e \in DOMAIN hass_states : \A s \in Range(SourceList) :
        mass_calls[i].control_id = e \o "_power_" \o s
            => (mass_calls[i].state <=> SelectedSourceIs(e, s))

\* the state section 4.3 prescribes for a control of an entity in state obj
C4_Recomputed(control, obj) ==
    IF control.control_type = CONTROL_TYPE_VOLUME
    THEN IF "volume_level" \in DOMAIN obj.attributes
         THEN LET v == obj.attributes.volume_level IN Ratio(v.num * 100, v.den)
         ELSE Ratio(0, 1)
    ELSE IF control.source # ""
    THEN "source" \in DOMAIN obj.attributes /\ obj.attributes.source = control.source
    ELSE obj.state \notin {"off", "unavailable", "unknown"}

\* the update calls due for the controls of entity e in state obj
C4_Pushes(e, obj) ==
    LET controls == IF e \in DOMAIN registered_controls THEN registered_controls[e] ELSE <<>>
    IN  [i \in 1..Len(controls) |->
            [method |-> "update_player_control",
             control_id |-> controls[i].control_id,
             state |-> C4_Recomputed(controls[i], obj)]]

\* C4 as stated: every state-change notification for e, also one without a
\* new state, makes one update call per control registered for e (stated for
\* the runs in which no remote call raises).
C4_EveryNotificationPushes ==
    (RanStateEvent /\ ~handler.raised) =>
        LET e == handler.event.entity_id
            controls == IF e \in DOMAIN registered_controls THEN registered_controls[e] ELSE <<>>
        IN  /\ Len(mass_calls) = Len(controls)
            /\ \A i \in 1..Len(controls) : mass_calls[i].control_id = controls[i].control_id

\* C4 amended: a notification for e that carries a new state makes one update
\* call per control registered for e, in table order and with the state
\* recomputed from the notification, up to the first call that raises; a
\* notification without a new state, or for an entity without registered
\* control, makes no call; no call is for a control of another entity.
C4_StateEventPushes ==
    RanStateEvent =>
        LET e == handler.event.entity_id
            due == IF handler.event.new_state = <<>> THEN <<>>
                   ELSE C4_Pushes(e, handler.event.new_state[1])
        IN  /\ ~handler.raised => mass_calls = due
            /\ handler.raised =>
                  /\ Len(mass_calls) \in 1..Len(due)
                  /\ mass_calls = SubSeq(due, 1, Len(mass_calls))
            /\ \A i \in 1..Len(mass_calls) : \A x \in DOMAIN registered_controls \ {e} :
                  \A c \in Range(registered_controls[x]) :
                      c.control_id # mass_calls[i].control_id

C4_Witness ==
    /\ RanStateEvent
    /\ ~handler.raised
    /\ handler.event.new_state # <<>>
    /\ Len(mass_calls) = 3
    /\ DOMAIN registered_controls = EntityIds

\* C5: register_player_control is called only for discovery candidates whose
\* control_id is in the enabled-set of that run, and a control enters the
\* registered-controls table only in a run whose enabled-set holds its id.
C5_OnlyEnabledRegistered ==
    /\ [](RanRegister =>
            \A i \in 1..Len(mass_calls) :
                /\ mass_calls[i].control_id \in handler.enabled
                /\ \E c \in Range(async_get_playercontrol_entities(hass_states)) :
                      c.control_id = mass_calls[i].control_id)
    /\ [][\A e \in DOMAIN registered_controls' :
            \A c \in Range(registered_controls'[e]) :
                (e \notin DOMAIN registered_controls \/ c \notin Range(registered_controls[e]))
                    => /\ RanRegister'
                       /\ c.control_id \in handler'.enabled
                       /\ handler'.enabled = EnabledControls(config_options')]_vars

C5_Witness ==
    /\ RanRegister
    /\ Len(mass_calls) >= 1
    /\ \E c \in Range(async_get_playercontrol_entities(hass_states)) :
          c.control_id \notin handler.enabled
    /\ RegisteredIds # {}

\* C6: a power-off request for a sourced power control whose entity exists
\* makes a turn_off call iff the entity's selected source is the control's
\* source, and otherwise no service call.
C6_PowerOffOnlyIfSourceMatches ==
    SourcedPowerRequest(FALSE) =>
        LET e == handler.control.entity_id
        IN  service_calls =
              IF SelectedSourceIs(e, handler.control.source)
              THEN << [domain |-> hass_states[e].domain, service |-> "turn_off",
                       data |-> [entity_id |-> e]] >>
              ELSE <<>>

C6_Witness ==
    /\ SourcedPowerRequest(FALSE)
    /\ Len(service_calls) = 1
    /\ service_calls[1].service = "turn_off"

VolumeRequest ==
    /\ RanSetState
    /\ handler.control.control_type = CONTROL_TYPE_VOLUME

\* C7: a request of n in 0..100 on a volume control whose entity exists makes
\* exactly one service call, volume_set on that entity with level n/100
\* (55 gives 0.55 = 11/20).
C7_VolumeRescaled ==
    (VolumeRequest /\ handler.control.entity_id \in DOMAIN hass_states) =>
        /\ Len(service_calls) = 1
        /\ service_calls[1].service = "volume_set"
        /\ service_calls[1].domain = "media_player"
        /\ DOMAIN service_calls[1].data = {"entity_id", "volume_level"}
        /\ service_calls[1].data.entity_id = handler.control.entity_id
        /\ LET level == service_calls[1].data.volume_level
           IN  /\ level.den > 0
               /\ level.num * 100 = handler.new_state * level.den
               /\ handler.new_state = 55 => level = [num |-> 11, den |-> 20]

C7_Witness ==
    /\ VolumeRequest
    /\ handler.new_state = 55
    /\ Len(service_calls) = 1

\* C8: a request for a control whose entity no longer exists makes no
\* service call and raises nothing, whatever the control and the request.
C8_MissingEntityDropped ==
    (RanSetState /\ handler.control.entity_id \notin DOMAIN hass_states) =>
        /\ service_calls = <<>>
        /\ ~handler.raised

C8_Witness ==
    /\ RanSetState
    /\ handler.control.entity_id \notin DOMAIN hass_states
    /\ handler.control.control_type = CONTROL_TYPE_POWER
    /\ handler.control.source = ""
    /\ handler.new_state

----------------------------------------------------------------------------
(* Properties of the URI codec.                                            *)

\* C9: the identifier and the media_content_id composed for an item parse
\* back to the item's server_id, media type, provider and item_id.
C9_RoundTrip ==
    (parsed # NotParsed /\ uri.kind \in {"identifier", "media_content_id"}) =>
        /\ parsed.status = "ok"
        /\ parsed.mass_id = browse_item[1].server_id
        /\ parsed.media_type = browse_item[1].media_item.media_type
        /\ parsed.provider = browse_item[1].media_item.provider
        /\ parsed.item_id = browse_item[1].media_item.item_id

\* the places where the separator occurs in s
SeparatorAt(s) ==
    { i \in 1..(Len(s) - Len(ITEM_ID_SEPERATOR) + 1) :
        SubSeq(s, i, i + Len(ITEM_ID_SEPERATOR) - 1) = ITEM_ID_SEPERATOR }

\* the provider/item_id segment of a raw identifier of RawUris
RawSegment(text) ==
    LET rest == IF StartsWith(text, MASS_URI_SCHEME)
                THEN SubSeq(text, Len(MASS_URI_SCHEME) + 1, Len(text)) ELSE text
        parts == Split(rest, <<"/">>)
    IN  IF Len(parts) > 2 THEN parts[3] ELSE <<>>

\* the least member of a non-empty set of numbers
Least(S) == CHOOSE i \in S : \A j \in S : i <= j

\* C10: when the provider/item_id segment holds the separator more than
\* once, parsing raises nothing, provider is the text before the first
\* separator and item_id is everything after it.
C10_SplitAtFirstSeparator ==
    (parsed # NotParsed /\ uri.kind = "raw"
        /\ Cardinality(SeparatorAt(RawSegment(uri.text))) > 1) =>
        LET seg == RawSegment(uri.text)
            first == Least(SeparatorAt(seg))
        IN  /\ parsed.status = "ok"
            /\ parsed.provider = SubSeq(seg, 1, first - 1)
            /\ parsed.item_id = SubSeq(seg, first + Len(ITEM_ID_SEPERATOR), Len(seg))

\* the raw identifiers made of a server id and a category, with no third
\* segment or an empty one, with and without the scheme
TwoSegmentUris(server, category) ==
    { prefix \o server \o <<"/">> \o category \o tail :
        prefix \in {<<>>, MASS_URI_SCHEME}, tail \in {<<>>, <<"/">>} }

\* C11: async_parse_uri never raises, whatever string it is given.
C11_ParseNeverRaises ==
    parsed # NotParsed => parsed.status = "ok"

\* C12: a URI with a server id and a category and no third segment, or an
\* empty one, parses to an empty provider and an empty item_id, with mass_id
\* the first segment and media_type the second.
C12_TwoSegmentsParse ==
    \A server \in ServerIds, category \in ContentTypes :
        (parsed # NotParsed /\ uri.text \in TwoSegmentUris(server, category)) =>
            /\ parsed.status = "ok"
            /\ parsed.provider = <<>>
            /\ parsed.item_id = <<>>
            /\ parsed.mass_id = server
            /\ parsed.media_type = category

C12_Witness ==
    /\ parsed # NotParsed
    /\ uri.kind = "raw"
    /\ \E server \in ServerIds, category \in ContentTypes :
          /\ uri.text \in TwoSegmentUris(server, category)
          /\ StartsWith(uri.text, MASS_URI_SCHEME)
    /\ parsed.provider = <<>>

----------------------------------------------------------------------------
(* Properties of discovery.                                                *)

\* the runs of discovery made so far
Runs == Range(discovered.first \o discovered.last)

\* the entities of the population that discovery looks at and does not skip
Scanned ==
    { e \in DOMAIN hass_states :
        /\ hass_states[e].domain \in {SWITCH_DOMAIN, MEDIA_PLAYER_DOMAIN, INPUT_BOOLEAN_DOMAIN}
        /\ "mass_player_id" \notin DOMAIN hass_states[e].attributes }

HasSourceList(e) == ATTR_INPUT_SOURCE_LIST \in DOMAIN hass_states[e].attributes

\* the power candidates and the volume candidates of entity e in a result
PowerOf(controls, e) ==
    SelectSeq(controls, LAMBDA c : c.entity_id = e /\ c.control_type = CONTROL_TYPE_POWER)
VolumeOf(controls, e) ==
    SelectSeq(controls, LAMBDA c : c.entity_id = e /\ c.control_type = CONTROL_TYPE_VOLUME)

\* the number of power candidates of e for this source ("" for none)
PowerCount(controls, e, source) ==
    Len(SelectSeq(PowerOf(controls, e), LAMBDA c : c.source = source))

\* C13 as stated: every entity with a source list yields one power candidate
\* per source plus one source-less power candidate, and every media player
\* additionally one volume candidate.
C13_PerSourcePlusPlain ==
    \A run \in Runs : \A e \in Scanned :
        /\ HasSourceList(e) =>
              /\ \A s \in Range(hass_states[e].attributes.source_list) \ {""} :
                    PowerCount(run.controls, e, s) = 1
              /\ PowerCount(run.controls, e, "") = 1
        /\ hass_states[e].domain = MEDIA_PLAYER_DOMAIN =>
              Len(VolumeOf(run.controls, e)) = 1

\* C13: discovery skips the entities that carry mass_player_id and those of
\* other domains; every other entity yields one power candidate per entry
\* of its source list, in the order of the list and source-less for an empty
\* entry, or exactly one source-less power candidate when it has no source
\* list; a media player additionally yields one volume candidate, any other
\* entity none.
C13_PerSourceEntry ==
    \A run \in Runs : \A e \in DOMAIN hass_states :
        IF e \in Scanned
        THEN LET source_list == IF HasSourceList(e)
                                THEN hass_states[e].attributes.source_list ELSE <<"">>
                 power == PowerOf(run.controls, e)
             IN  /\ [i \in 1..Len(power) |-> power[i].source] = source_list
                 /\ Len(VolumeOf(run.controls, e)) =
                        (IF hass_states[e].domain = MEDIA_PLAYER_DOMAIN THEN 1 ELSE 0)
        ELSE PowerOf(run.controls, e) = <<>> /\ VolumeOf(run.controls, e) = <<>>

C13_Witness ==
    \E run \in Runs :
        /\ ReceiverId \in Scanned
        /\ HasSourceList(ReceiverId)
        /\ hass_states[ReceiverId].attributes.source_list = SourceList
        /\ Len(PowerOf(run.controls, ReceiverId)) = Len(SourceList)
        /\ PowerCount(run.controls, ReceiverId, "") = 0
        /\ Len(VolumeOf(run.controls, ReceiverId)) = 1

\* C14: in any discovery result no two candidates share a control_id.
C14_ControlIdsDistinct ==
    \A run \in Runs : \A i, j \in 1..Len(run.controls) :
        i # j => run.controls[i].control_id # run.controls[j].control_id

\* the control_ids of a result
ControlIds(run) == { c.control_id : c \in Range(run.controls) }

\* the ids of the three forms for the entities of the population
WellFormedIds ==
    UNION { { e \o "_power", e \o "_volume" }
            \cup { e \o "_power_" \o s :
                     s \in Range(DictGet(hass_states[e].attributes,
                                         ATTR_INPUT_SOURCE_LIST, <<>>)) } :
            e \in DOMAIN hass_states }

\* C15: two runs of discovery over the same entities, in whatever order the
\* entities are listed, yield the same set of control_ids, each of the form
\* <entity_id>_power_<source>, <entity_id>_power or <entity_id>_volume.
C15_SameIdsEachRun ==
    /\ \A run \in Runs : ControlIds(run) \subseteq WellFormedIds
    /\ \A r1, r2 \in Runs : ControlIds(r1) = ControlIds(r2)

C15_Witness ==
    /\ discovered.first # <<>>
    /\ discovered.last # <<>>
    /\ discovered.first[1].order # discovered.last[1].order
    /\ Cardinality(ControlIds(discovered.last[1])) > 2
    /\ DOMAIN hass_states \ Scanned # {}

----------------------------------------------------------------------------
(* Properties of the event dispatcher.                                     *)

\* the dispatches among the effects of the call being handled
Dispatches ==
    SelectSeq(event_effects, LAMBDA x : x.method = "async_dispatcher_send")

\* C16: an event of a kind other than connected is dispatched exactly once,
\* with its details, on the topic of its kind (player added and player
\* changed on the players topic, queue updated on the queue topic, player
\* removed on the player-removed topic) and causes nothing else; an event of
\* a kind that is not recognized causes no dispatch and no remote call.
C16_OneTopicPerKind ==
    (mass_event # NoEvent /\ mass_event.event # EVENT_CONNECTED) =>
        LET expected ==
              CASE mass_event.event \in {EVENT_PLAYER_ADDED, EVENT_PLAYER_CHANGED} ->
                     <<DISPATCH_KEY_PLAYERS>>
                [] mass_event.event = EVENT_QUEUE_UPDATED -> <<DISPATCH_KEY_QUEUE_UPDATE>>
                [] mass_event.event = EVENT_PLAYER_REMOVED -> <<DISPATCH_KEY_PLAYER_REMOVED>>
                [] OTHER -> <<>>
        IN  /\ [i \in 1..Len(Dispatches) |-> Dispatches[i].topic] = expected
            /\ \A i \in 1..Len(Dispatches) : Dispatches[i].payload = mass_event.details
            /\ Len(event_effects) = Len(Dispatches)
            /\ mass_calls = <<>>
            /\ ~handler.raised

C16_Witness ==
    /\ mass_event # NoEvent
    /\ mass_event.event = EVENT_PLAYER_REMOVED
    /\ Len(Dispatches) = 1
    /\ Dispatches[1].topic = DISPATCH_KEY_PLAYER_REMOVED

\* C17: for a connected event whose get_players call returns, the effects
\* are, in this order: the get_players call, one dispatch on the players
\* topic per player returned, in the order of the list, and one run of
\* async_register_player_controls.
C17_EnumerateThenRegister ==
    (mass_event # NoEvent /\ mass_event.event = EVENT_CONNECTED
        /\ ~handler.get_players_raises) =>
        LET n == Len(mass_players)
        IN  /\ Len(event_effects) = n + 2
            /\ event_effects[1].method = "get_players"
            /\ \A i \in 1..n :
                  /\ event_effects[i + 1].method = "async_dispatcher_send"
                  /\ event_effects[i + 1].topic = DISPATCH_KEY_PLAYERS
                  /\ event_effects[i + 1].payload = mass_players[i]
            /\ event_effects[n + 2].method = "async_register_player_controls"
            /\ mass_calls = <<event_effects[1]>> \o event_effects[n + 2].calls

C17_Witness ==
    /\ mass_event # NoEvent
    /\ mass_event.event = EVENT_CONNECTED
    /\ Len(mass_players) > 1
    /\ mass_players[1] # mass_players[2]
    /\ Len(Dispatches) = Len(mass_players)
    /\ Len(mass_calls) > 2
    /\ ~handler.raised

----------------------------------------------------------------------------
(* Properties of the entity facade.                                        *)

\* the methods of MassPlayer that act for the user
PlayerMethods ==
    DOMAIN TransportCommands
    \cup {"async_set_volume_level", "async_mute_volume", "async_set_shuffle",
          "async_clear_playlist", "async_play_media"}

\* the play request asks for a library playlist or a library radio by name
ByName(request) ==
    /\ ~StartsWith(request.media_id, MASS_URI_SCHEME)
    /\ ~(request.media_type \in PLAYABLE_MEDIA_TYPES
            /\ Contains(request.media_id, ITEM_ID_SEPERATOR))
    /\ ~Contains(request.media_id, <<"/">>)
    /\ request.media_type \in {MEDIA_TYPE_PLAYLIST, MEDIA_TYPE_RADIO}

\* the library items that a request by name looks through
Looked(request) ==
    IF request.media_type = MEDIA_TYPE_PLAYLIST
    THEN mass_library.playlists ELSE mass_library.radios

\* the commands among the remote calls of the method that ran
Commands ==
    SelectSeq(mass_calls, LAMBDA c : c.method \in
        {"player_command", "player_queue_set_shuffle", "player_queue_clear",
         "play_media", "play_alert", "play_uri"})

\* C18 as stated: every user action that returns has made exactly one call
\* to the remote server.
C18_ExactlyOneCall ==
    (handler.name \in PlayerMethods /\ ~handler.raised) => Len(mass_calls) = 1

\* C18: every user action other than play-media makes exactly one remote
\* call, a command.  Play-media makes one command call and no other, except
\* that a request for a library playlist or radio by name first makes one
\* library query and then one command if the library holds an item of that
\* name and none if it does not, and that a request whose media id cannot be
\* decoded raises before any call.
C18_CallsPerAction ==
    handler.name \in PlayerMethods =>
        IF handler.name # "async_play_media"
        THEN Len(mass_calls) = 1 /\ Len(Commands) = 1 /\ ~handler.raised
        ELSE IF handler.raised
        THEN /\ mass_calls = <<>>
             /\ \/ StartsWith(handler.args.media_id, MASS_URI_SCHEME)
                \/ Contains(handler.args.media_id, ITEM_ID_SEPERATOR)
        ELSE IF ByName(handler.args)
        THEN /\ Len(mass_calls) = 1 + Len(Commands)
             /\ mass_calls[1].method \in {"get_library_playlists", "get_library_radios"}
             /\ Len(Commands) =
                   (IF \E item \in Range(Looked(handler.args)) :
                          item.name = handler.args.media_id
                    THEN 1 ELSE 0)
        ELSE Len(mass_calls) = 1 /\ Len(Commands) = 1

C18_Witness ==
    /\ handler.name = "async_play_media"
    /\ ByName(handler.args)
    /\ Len(Looked(handler.args)) > 2
    /\ Len(mass_calls) = 2
    /\ mass_calls[2].method = "play_media"
    /\ mass_calls[2].media.item_id = "2"

----------------------------------------------------------------------------
(* Properties of the browse tree.                                          *)

\* the five categories of a server's top-level listing
Categories ==
    { t \o <<"s">> : t \in {MEDIA_TYPE_PLAYLIST, MEDIA_TYPE_ARTIST, MEDIA_TYPE_ALBUM,
                              MEDIA_TYPE_TRACK, MEDIA_TYPE_RADIO} }

\* the media source was asked for this identifier
Browsed(identifier) ==
    /\ browse_request # NoRequest
    /\ browse_request.kind = "media_source"
    /\ browse_request.identifier = <<identifier>>

\* C19: browsing the identifier <server_id>/root of a server of the registry
\* returns that server's top-level listing, with exactly one child per
\* category: playlists, artists, albums, tracks, radios.
C19_RootMarkerBrowse ==
    \A mass \in Range(mass_servers) :
        Browsed(mass.server_id \o RootMarker) =>
            /\ browse_result.status = "ok"
            /\ browse_result.source.identifier = mass.server_id \o RootMarker
            /\ Len(browse_result.source.children) = Cardinality(Categories)
            /\ { c.identifier : c \in Range(browse_result.source.children) }
                  = { mass.server_id \o <<"/">> \o category : category \in Categories }

\* the title the claim gives an item
TitleByCategory(media_item) ==
    IF media_item.media_type = MEDIA_TYPE_ALBUM
    THEN media_item.artist.name \o " - " \o media_item.name
    ELSE IF media_item.media_type = MEDIA_TYPE_TRACK
    THEN Join([i \in 1..Len(media_item.artists) |-> media_item.artists[i].name], " / ")
            \o " - " \o media_item.name
    ELSE media_item.name

\* C20: in the listing of a library category every child has the title of
\* its item's category: artist name and album name joined for an album,
\* the artist names joined and then the track name for a track, the item's
\* name for any other item.
C20_TitlePerCategory ==
    \A mass \in Range(mass_servers), category \in Categories :
        (Browsed(mass.server_id \o <<"/">> \o category) /\ browse_result.status = "ok") =>
            LET items == GetLibrary(mass, category)
                children == browse_result.source.children
            IN  /\ Len(children) = Len(items)
                /\ \A i \in 1..Len(items) : children[i].title = TitleByCategory(items[i])

\* the items of a listing that async_create_media_item_source returns for
RECURSIVE Resolvable(_)
Resolvable(items) ==
    IF items = <<>> THEN <<>>
    ELSE (IF MediaItemError(Head(items)) = None THEN <<Head(items)>> ELSE <<>>)
         \o Resolvable(Tail(items))

\* C21: the listing of a category in which an item cannot be resolved (a
\* field is missing or its media type is not recognized) does not fail: it
\* holds one child for every other item, in order, and none for that item.
C21_UnresolvedItemsSkipped ==
    \A mass \in Range(mass_servers), category \in Categories :
        Browsed(mass.server_id \o <<"/">> \o category) =>
            LET items == Resolvable(GetLibrary(mass, category))
            IN  /\ browse_result.status = "ok"
                /\ [i \in 1..Len(browse_result.source.children) |->
                      browse_result.source.children[i].identifier]
                   = [i \in 1..Len(items) |->
                        async_create_media_item_source(mass.server_id, items[i]).identifier]

\* the segments of an identifier
Segments(identifier) == Split(identifier, <<"/">>)

\* an identifier with a server segment and a category segment of which the
\* server is not in the registry or the category is not a known one
UnknownServerOrCategory(identifier, servers) ==
    /\ Len(Segments(identifier)) > 1
    /\ \/ \A mass \in Range(servers) : mass.server_id # Segments(identifier)[1]
       \/ /\ Segments(identifier)[2] \notin ContentTypes
          /\ Segments(identifier)[2] # Tail(RootMarker)

\* C22: a browse request for an identifier whose server is not in the
\* registry, or whose category is not known, ends in BrowseError, whether
\* the media source or an entity is asked.
C22_UnknownEndsInBrowseError ==
    /\ (/\ browse_request # NoRequest
        /\ browse_request.kind = "media_source"
        /\ browse_request.identifier # <<>>
        /\ UnknownServerOrCategory(browse_request.identifier[1], mass_servers))
          => browse_result.status = "BrowseError"
    /\ (/\ browse_request # NoRequest
        /\ browse_request.kind = "media_player"
        /\ browse_request.media_content_type = "audio"
        /\ UnknownServerOrCategory(
              SubSeq(browse_request.media_content_id[1], Len(MASS_URI_SCHEME) + 1,
                     Len(browse_request.media_content_id[1])),
              <<browse_request.mass>>))
          => browse_result.status = "BrowseError"

----------------------------------------------------------------------------
(* The setup flow of config_flow.py: the user step, the zeroconf step and  *)
(* the discovery-confirm step of a ConfigFlow (SpecFlow).  login belongs   *)
(* to the client library: each step is given what login does, raise or     *)
(* return the token info of a server.                                      *)

\* FlowHandler.async_show_form: errors is None when the step passes none
async_show_form(step_id, errors) ==
    [type |-> "form", step_id |-> step_id, errors |-> errors]

\* FlowHandler.async_create_entry, and the entry the flow manager makes of it
async_create_entry(title, data) ==
    [type |-> "create_entry", title |-> title, data |-> data]

ConfigEntry(unique_id, result) ==
    [unique_id |-> unique_id, title |-> result.title, data |-> result.data]

\* what login does: it raises, or it returns the token info of a server
LoginRaises == [raised |-> TRUE]
LoginReturns(server_id) == [raised |-> FALSE, token_info |-> [server_id |-> server_id]]

\* errors of a step in which login raised (lines 64-66, 106-108)
InvalidAuth == [base |-> "invalid_auth"]

\* async_step_user (lines 49-79); user_input is <<>> for None
async_step_user(self, user_input, login, entries) ==
    IF user_input = <<>>
    THEN [self |-> self, entries |-> entries,
          result |-> async_show_form("user", <<EmptyDict>>)]
    ELSE IF login.raised
    THEN [self |-> self, entries |-> entries,
          result |-> async_show_form("user", <<InvalidAuth>>)]
    ELSE LET unique_id == login.token_info.server_id
             data == [host |-> user_input[1].host, port |-> user_input[1].port,
                      token_info |-> login.token_info]
             result == async_create_entry(DEFAULT_NAME, data)
         IN  [self |-> [self EXCEPT !.unique_id = <<unique_id>>],
              entries |-> Append(entries, ConfigEntry(<<unique_id>>, result)),
              result |-> result]

\* async_step_discovery_confirm (lines 94-122): the form of line 113 is
\* made without the errors of line 96
async_step_discovery_confirm(self, user_input, login, entries) ==
    IF user_input = <<>> \/ login.raised
    THEN [self |-> self, entries |-> entries,
          result |-> async_show_form("discovery_confirm", <<>>)]
    ELSE LET data == [host |-> self.host, port |-> self.port,
                      token_info |-> login.token_info]
             result == async_create_entry(DEFAULT_NAME, data)
         IN  [self |-> self,
              entries |-> Append(entries, ConfigEntry(self.unique_id, result)),
              result |-> result]

\* _abort_if_unique_id_configured(updates): the entries of that unique id
\* take the updates
UpdateEntries(entries, unique_id, updates) ==
    [i \in 1..Len(entries) |->
        IF entries[i].unique_id = <<unique_id>>
        THEN [entries[i] EXCEPT !.data.host = updates.host, !.data.port = updates.port]
        ELSE entries[i]]

\* async_step_zeroconf (lines 81-92)
async_step_zeroconf(discovery_info, entries) ==
    LET props == discovery_info.properties
        self == [unique_id |-> <<props.id>>, host |-> props.ip_address,
                 port |-> props.port, name |-> props.friendly_name]
        server_info == [host |-> self.host, port |-> self.port]
    IN  IF \E i \in 1..Len(entries) : entries[i].unique_id = <<props.id>>
        THEN [self |-> self, entries |-> UpdateEntries(entries, props.id, server_info),
              result |-> [type |-> "abort", reason |-> "already_configured"]]
        ELSE IF props.initialized
        THEN async_step_discovery_confirm(self, <<>>, LoginRaises, entries)
        ELSE [self |-> self, entries |-> entries, result |-> [type |-> "returned_none"]]

\* how many config entries the flows may make
MaxFlowEntries == 2

FlowHosts == {"10.0.0.1", "10.0.0.2"}
FlowServerIds == {"srv1", "srv2"}
UserInputs ==
    { [host |-> h, port |-> 8095, username |-> "admin", password |-> pw] :
        h \in FlowHosts, pw \in {"", "secret"} }
ConfirmInputs == { [username |-> "admin", password |-> pw] : pw \in {"", "secret"} }
LoginOutcomes == {LoginRaises} \cup { LoginReturns(id) : id \in FlowServerIds }
DiscoveryInfos ==
    { [properties |-> [id |-> id, ip_address |-> h, port |-> 8095,
                       friendly_name |-> "Music Assistant", initialized |-> init]] :
        id \in FlowServerIds, h \in FlowHosts, init \in BOOLEAN }

InitFlow ==
    /\ InitBridge
    /\ browse_item = <<>>
    /\ src = <<>>
    /\ uri = NoUri
    /\ parsed = NotParsed
    /\ IdleDisc
    /\ IdleEvents
    /\ IdlePlayer
    /\ IdleBrowse
    /\ IdleFlow
    /\ IdleUnload
    /\ IdleRace
    /\ IdleEntities

FlowStep(step_id, user_input, login, r) ==
    /\ Len(r.entries) <= MaxFlowEntries
    /\ flow' = r.self
    /\ flow_entries' = r.entries
    /\ flow_result' = r.result
    /\ flow_step' = [step_id |-> step_id, user_input |-> user_input,
                     login |-> IF user_input = <<>> THEN "not called"
                               ELSE IF login.raised THEN "raised" ELSE "returned"]
    /\ UNCHANGED besidesFlow

\* the user starts a flow: the user step without input
StartUserFlow ==
    FlowStep("user", <<>>, LoginRaises, async_step_user(NoFlow, <<>>, LoginRaises, flow_entries))

\* the user submits the form of the user step
SubmitUserStep(user_input, login) ==
    /\ flow_result.type = "form" /\ flow_result.step_id = "user"
    /\ FlowStep("user", <<user_input>>, login,
                async_step_user(flow, <<user_input>>, login, flow_entries))

\* a server is discovered: a flow starts at the zeroconf step
Zeroconf(discovery_info) ==
    /\ flow' = async_step_zeroconf(discovery_info, flow_entries).self
    /\ flow_entries' = async_step_zeroconf(discovery_info, flow_entries).entries
    /\ flow_result' = async_step_zeroconf(discovery_info, flow_entries).result
    /\ flow_step' = [step_id |-> "zeroconf", user_input |-> <<>>, login |-> "not called"]
    /\ UNCHANGED besidesFlow

\* the user submits the form of the discovery-confirm step
SubmitDiscoveryConfirm(user_input, login) ==
    /\ flow_result.type = "form" /\ flow_result.step_id = "discovery_confirm"
    /\ FlowStep("discovery_confirm", <<user_input>>, login,
                async_step_discovery_confirm(flow, <<user_input>>, login, flow_entries))

NextFlow ==
    \/ StartUserFlow
    \/ \E user_input \in UserInputs, login \in LoginOutcomes :
          SubmitUserStep(user_input, login)
    \/ \E discovery_info \in DiscoveryInfos : Zeroconf(discovery_info)
    \/ \E user_input \in ConfirmInputs, login \in LoginOutcomes :
          SubmitDiscoveryConfirm(user_input, login)

SpecFlow == InitFlow /\ [][NextFlow]_vars

\* C23: a step of the setup flow in which login failed returns its own form
\* again with the error base = invalid_auth, and makes no config entry.
C23_LoginFailureShowsError ==
    [][flow_step'.step_id \in {"user", "discovery_confirm"} /\ flow_step'.login = "raised"
         => /\ flow_result' = async_show_form(flow_step'.step_id, <<InvalidAuth>>)
            /\ flow_entries' = flow_entries]_vars

----------------------------------------------------------------------------
(* async_hass_state_event as a task (SpecStateRace).  The listener is a    *)
(* coroutine: the event loop starts one task per state_changed event, and  *)
(* a task gives the loop back at each "await update_player_control".  A    *)
(* task is [state_obj, controls, i]: its event's new state, the list it    *)
(* iterates and the number of the control whose push it awaits; it has     *)
(* finished when i is past the list.                                       *)

\* the task from the call of the handler to its first await or its return
StartStateTask(event, table) ==
    IF event.entity_id \notin DOMAIN table \/ ~HasNewState(event)
    THEN [state_obj |-> event.new_state, controls |-> <<>>, i |-> 1]
    ELSE [state_obj |-> event.new_state,
          controls |-> table[event.new_state[1].entity_id], i |-> 1]

TaskFinished(task) == task.i > Len(task.controls)

\* the call a task makes before it awaits: update_player_control(control_id, new_state)
Push(task, pushed) ==
    IF TaskFinished(task) THEN pushed
    ELSE (task.controls[task.i].control_id
            :> NewState(task.controls[task.i], task.state_obj[1])) @@ pushed

\* how many state_changed events fire
MaxStateEvents == 2

\* every control of the two entities is enabled and registered
AllEnabled == [power_control_entities |-> PowerIds, volume_control_entities |-> VolumeIds]
Registered(states) == async_register_player_controls(states, AllEnabled, EmptyDict, EmptyDict, 0)

InitStateRace ==
    /\ hass_states \in { (ReceiverId :> r) @@ (AmpId :> a) :
                            r \in { o \in ReceiverStates : o.state = "off" },
                            a \in { o \in AmpStates : o.state = "off" } }
    /\ config_options = AllEnabled
    /\ registered_controls = Registered(hass_states).table
    /\ mass_controls = Registered(hass_states).controls
    /\ mass_calls = <<>>
    /\ service_calls = <<>>
    /\ handler = [name |-> "none"]
    /\ browse_item = <<>>
    /\ src = <<>>
    /\ uri = NoUri
    /\ parsed = NotParsed
    /\ IdleDisc
    /\ IdleEvents
    /\ IdlePlayer
    /\ IdleBrowse
    /\ IdleFlow
    /\ IdleUnload
    /\ IdleEntities
    /\ state_tasks = <<>>
    /\ mass_pushed = [id \in DOMAIN mass_controls |->
                        CurState(mass_controls[id], hass_states[mass_controls[id].entity_id])]

\* The state machine writes a new state for entity e and fires state_changed:
\* a task starts and runs to its first await.
StateChangedTask(e, obj) ==
    /\ Len(state_tasks) < MaxStateEvents
    /\ obj \in StateObjects(e)
    /\ hass_states[e] # obj
    /\ hass_states' = [hass_states EXCEPT ![e] = obj]
    /\ LET task == StartStateTask([entity_id |-> e, new_state |-> <<obj>>],
                                  registered_controls)
       IN  /\ state_tasks' = Append(state_tasks, task)
           /\ mass_pushed' = Push(task, mass_pushed)
    /\ UNCHANGED besidesRace

\* The await of task t returns: the loop goes on to the next control, which
\* the task pushes before it awaits again, or ends.
ResumeStateTask(t) ==
    /\ t \in 1..Len(state_tasks)
    /\ ~TaskFinished(state_tasks[t])
    /\ LET task == [state_tasks[t] EXCEPT !.i = @ + 1]
       IN  /\ state_tasks' = [state_tasks EXCEPT ![t] = task]
           /\ mass_pushed' = Push(task, mass_pushed)
    /\ UNCHANGED hass_states
    /\ UNCHANGED besidesRace

NextStateRace ==
    \/ \E e \in EntityIds : \E obj \in StateObjects(e) : StateChangedTask(e, obj)
    \/ \E t \in 1..MaxStateEvents : ResumeStateTask(t)

SpecStateRace == InitStateRace /\ [][NextStateRace]_vars

\* C24: once the handlers of two state-changed events of one entity have both
\* finished, the state the remote server was given last for each control of
\* the entity is the one computed from the entity's latest state.
C24_LastPushIsLatestState ==
    \A e \in EntityIds :
        (/\ Len(state_tasks) >= 2
         /\ \A t \in 1..Len(state_tasks) :
               /\ TaskFinished(state_tasks[t])
               /\ state_tasks[t].state_obj[1].entity_id = e)
          => \A i \in 1..Len(registered_controls[e]) :
                mass_pushed[registered_controls[e][i].control_id]
                    = NewState(registered_controls[e][i], hass_states[e])

----------------------------------------------------------------------------
(* The media_player platform and its entities (SpecEntities): the platform *)
(* setup task of __init__.py line 59, the listener of the players topic    *)
(* (async_update_media_player) and the callbacks of a MassPlayer.  The     *)
(* dispatcher calls the targets connected to a topic when the send is      *)
(* made; a send on a topic nobody is connected to reaches nobody.  A       *)
(* listener without an await runs in one step; a coroutine with an await   *)
(* waits in entity_tasks until the awaited call returns.                   *)

DISPATCH_KEY_PLAYER_UPDATE == "DISPATCH_KEY_PLAYER_UPDATE"

\* f"{DISPATCH_KEY_PLAYER_UPDATE}_{player_id}"
PlayerUpdateTopic(player_id) == DISPATCH_KEY_PLAYER_UPDATE \o "_" \o player_id

\* the target of the connections the platform makes
Platform == "async_setup_entry"

\* MassPlayer.__init__
MassPlayer(player_data) ==
    [player_data |-> player_data, queue_data |-> EmptyDict,
     queue_cur_item |-> EmptyDict, cur_image |-> None]

\* a coroutine of entity player_id that waits: for the platform to add the
\* entity, or for the remote call it made with item to return
EntityTask(kind, player_id, item) == [kind |-> kind, player_id |-> player_id, item |-> item]

\* a listener that takes every player for a new one
KnownPlayerNever(players, player_id) == FALSE

\* "if player_id not in media_players" (line 80)
KnownPlayer(players, player_id) == player_id \in DOMAIN players

\* MassPlayer.async_update_callback: the send on the entity's update topic,
\* which reaches the entity once it is connected to the topic
async_update_callback(st, player_id, player_data) ==
    IF <<PlayerUpdateTopic(player_id), player_id>> \in st.dispatcher
    THEN [st EXCEPT !.media_players[player_id].player_data = player_data]
    ELSE st

\* async_update_media_player (lines 77-91); st holds the dispatcher, the
\* media_players table, the entities added, the tasks and the sends made
async_update_media_player(st, player_data) ==
    LET player_id == player_data.player_id
    IN  IF ~KnownPlayer(st.media_players, player_id)
        THEN IF ~player_data.available THEN st
             ELSE [st EXCEPT
                     !.media_players = (player_id :> MassPlayer(player_data)) @@ @,
                     !.added = Append(@, player_id),
                     !.tasks = Append(@, EntityTask("async_added_to_hass", player_id, <<>>))]
        ELSE LET send == DispatcherSend(PlayerUpdateTopic(player_id), player_data)
             IN  async_update_callback([st EXCEPT !.sends = Append(@, send)],
                                       player_id, player_data)

\* the image the server resolves for an item
ImageUrl(item) == IF DOMAIN item = {} THEN None ELSE "image of " \o item.item_id

\* a callback that takes every queue for the entity's own
QueueMatchesAlways(player, queue_data) == TRUE

\* "if queue_data['queue_id'] == self._player_data['active_queue']" (line 157)
QueueMatches(player, queue_data) == queue_data.queue_id = player.player_data.active_queue

\* async_update_queue_callback up to its await (lines 157-166); cur_item is
\* <<>> for None
async_update_queue_callback(st, player_id, queue_data) ==
    IF ~QueueMatches(st.media_players[player_id], queue_data)
    THEN st
    ELSE LET item == IF queue_data.cur_item # <<>> THEN queue_data.cur_item[1]
                     ELSE EmptyDict
         IN  [st EXCEPT
                !.media_players[player_id].queue_data = queue_data,
                !.media_players[player_id].queue_cur_item = item,
                !.tasks = Append(@, EntityTask("get_media_item_image_url", player_id, <<item>>)),
                !.log[player_id] = Append(@, [write |-> "queue update", item |-> item])]

\* the order in which the dispatcher calls the entities connected to a topic
PlayerIdOrder == <<"player1", "player2">>
PlayerIds == Range(PlayerIdOrder)

RECURSIVE QueueCallbacks(_, _, _)
QueueCallbacks(st, i, queue_data) ==
    IF i > Len(PlayerIdOrder) THEN st
    ELSE QueueCallbacks(
            IF <<DISPATCH_KEY_QUEUE_UPDATE, PlayerIdOrder[i]>> \in st.dispatcher
            THEN async_update_queue_callback(st, PlayerIdOrder[i], queue_data)
            ELSE st,
            i + 1, queue_data)

\* MassPlayer.async_mark_unavailable (lines 150-153)
async_mark_unavailable(st, player_id) ==
    [st EXCEPT !.media_players[player_id].player_data.available = FALSE,
               !.removed = @ \cup {player_id}]

\* async_remove_media_player (lines 93-98): the entities of the table whose
\* player_id is the removed one are marked
RECURSIVE async_remove_media_player(_, _, _)
async_remove_media_player(st, i, player_id) ==
    IF i > Len(PlayerIdOrder) THEN st
    ELSE async_remove_media_player(
            IF /\ PlayerIdOrder[i] \in DOMAIN st.media_players
               /\ st.media_players[PlayerIdOrder[i]].player_data.player_id = player_id
            THEN async_mark_unavailable(st, PlayerIdOrder[i])
            ELSE st,
            i + 1, player_id)

\* one effect of handle_mass_event reaches the platform and the entities
Deliver(st, effect) ==
    IF effect.method # "async_dispatcher_send" THEN st
    ELSE IF effect.topic = DISPATCH_KEY_PLAYERS
    THEN LET got == [st EXCEPT !.received =
                        (effect.payload.player_id :> effect.payload) @@ @,
                                !.removed = @ \ {effect.payload.player_id}]
         IN  IF <<DISPATCH_KEY_PLAYERS, Platform>> \in st.dispatcher
             THEN async_update_media_player(got, effect.payload)
             ELSE got
    ELSE IF effect.topic = DISPATCH_KEY_QUEUE_UPDATE
    THEN QueueCallbacks(st, 1, effect.payload)
    ELSE IF effect.topic = DISPATCH_KEY_PLAYER_REMOVED
            /\ <<DISPATCH_KEY_PLAYER_REMOVED, Platform>> \in st.dispatcher
    THEN async_remove_media_player(st, 1, effect.payload)
    ELSE st

RECURSIVE DeliverAll(_, _, _)
DeliverAll(st, effects, i) ==
    IF i > Len(effects) THEN st
    ELSE DeliverAll(Deliver(st, effects[i]), effects, i + 1)

\* how many events the server sends
MaxMassEvents == 3

EntityPayload(player_id, available, volume_level) ==
    [player_id |-> player_id, name |-> player_id, available |-> available,
     active_queue |-> player_id, volume_level |-> volume_level]

\* the payloads of player-added and player-changed events
EntityPayloads ==
    { EntityPayload("player1", a, v) : a \in BOOLEAN, v \in {10, 20} }
    \cup { EntityPayload("player2", TRUE, 10) }

QueueItems == { [item_id |-> "track1"], [item_id |-> "track2"] }
QueueDatas(queue_id) ==
    { [queue_id |-> queue_id, cur_item |-> c] : c \in {<<>>} \cup { <<i>> : i \in QueueItems } }

EntityEvents ==
    { [event |-> e, details |-> d] :
         e \in {EVENT_PLAYER_ADDED, EVENT_PLAYER_CHANGED}, d \in EntityPayloads }
    \cup { [event |-> EVENT_QUEUE_UPDATED, details |-> d] : d \in QueueDatas("player1") }
    \cup { [event |-> EVENT_PLAYER_REMOVED, details |-> id] : id \in PlayerIds }
    \cup { [event |-> EVENT_CONNECTED, details |-> None] }

InitEntities ==
    /\ InitBridge
    /\ browse_item = <<>>
    /\ src = <<>>
    /\ uri = NoUri
    /\ parsed = NotParsed
    /\ IdleDisc
    /\ IdlePlayer
    /\ IdleBrowse
    /\ IdleFlow
    /\ IdleUnload
    /\ IdleRace
    /\ IdleEntities
    /\ mass_players \in { <<EntityPayload("player1", TRUE, 10)>>,
                          <<EntityPayload("player1", FALSE, 10),
                            EntityPayload("player2", TRUE, 10)>> }
    /\ mass_event = NoEvent
    /\ event_effects = <<>>

\* The task made in __init__.py line 59 runs async_setup_entry of the
\* media_player platform, which connects its two listeners.
SetupPlatform ==
    /\ <<DISPATCH_KEY_PLAYERS, Platform>> \notin dispatcher
    /\ dispatcher' = dispatcher \cup { <<DISPATCH_KEY_PLAYERS, Platform>>,
                                       <<DISPATCH_KEY_PLAYER_REMOVED, Platform>> }
    /\ UNCHANGED <<media_players, added_entities, entity_tasks, players_received,
                   players_enumerated, players_removed, queue_log, events_handled, mass_event,
                   event_effects>>
    /\ UNCHANGED besidesEntities

\* The client calls handle_mass_event with an event; the listeners of the
\* topics it sends on run up to their first await.
EntityEvent(ev) ==
    /\ events_handled < MaxMassEvents
    /\ ev \in EntityEvents
    /\ LET r == handle_mass_event(ev.event, ev.details, mass_players, hass_states,
                                  config_options, registered_controls, mass_controls,
                                  FALSE, 0)
           st == DeliverAll([dispatcher |-> dispatcher, media_players |-> media_players,
                             added |-> added_entities, tasks |-> entity_tasks,
                             received |-> players_received, removed |-> players_removed,
                             log |-> queue_log,
                             sends |-> <<>>],
                            r.effects, 1)
       IN  /\ mass_event' = ev
           /\ event_effects' = r.effects \o st.sends
           /\ media_players' = st.media_players
           /\ added_entities' = st.added
           /\ entity_tasks' = st.tasks
           /\ players_received' = st.received
           /\ players_removed' = st.removed
           /\ queue_log' = st.log
    /\ players_enumerated' =
          IF ev.event = EVENT_CONNECTED
          THEN players_enumerated \cup
                  { mass_players[i].player_id : i \in { j \in 1..Len(mass_players) :
                                                            mass_players[j].available } }
          ELSE players_enumerated
    /\ events_handled' = events_handled + 1
    /\ UNCHANGED dispatcher
    /\ UNCHANGED besidesEntities

Without(tasks, t) == SubSeq(tasks, 1, t - 1) \o SubSeq(tasks, t + 1, Len(tasks))

\* The platform adds the entity of task t: async_added_to_hass connects the
\* entity's three callbacks and awaits get_player_queue (lines 118-140).
AddedToHass(t) ==
    /\ t \in 1..Len(entity_tasks)
    /\ entity_tasks[t].kind = "async_added_to_hass"
    /\ LET player_id == entity_tasks[t].player_id
       IN  /\ dispatcher' = dispatcher \cup
                  { <<PlayerUpdateTopic(player_id), player_id>>,
                    <<DISPATCH_KEY_QUEUE_UPDATE, player_id>>,
                    <<"DISPATCH_KEY_QUEUE_TIME_UPDATE", player_id>> }
           /\ entity_tasks' = Append(Without(entity_tasks, t),
                                     EntityTask("get_player_queue", player_id, <<>>))
           /\ queue_log' = (player_id :> <<>>) @@ queue_log
    /\ UNCHANGED <<media_players, added_entities, players_received, players_enumerated, players_removed,
                   events_handled, mass_event, event_effects>>
    /\ UNCHANGED besidesEntities

\* get_player_queue returns queue_data to task t (lines 140-143)
QueueFetched(t, queue_data) ==
    /\ t \in 1..Len(entity_tasks)
    /\ entity_tasks[t].kind = "get_player_queue"
    /\ LET player_id == entity_tasks[t].player_id
       IN  /\ queue_data \in QueueDatas(player_id)
           /\ media_players' =
                 [media_players EXCEPT
                    ![player_id].queue_data = queue_data,
                    ![player_id].queue_cur_item =
                        IF queue_data.cur_item # <<>> THEN queue_data.cur_item[1] ELSE @]
           /\ queue_log' = [queue_log EXCEPT ![player_id] =
                              Append(@, [write |-> "get_player_queue",
                                         item |-> media_players'[player_id].queue_cur_item])]
    /\ entity_tasks' = Without(entity_tasks, t)
    /\ UNCHANGED <<dispatcher, added_entities, players_received, players_enumerated, players_removed,
                   events_handled, mass_event, event_effects>>
    /\ UNCHANGED besidesEntities

\* get_media_item_image_url returns to task t, which stores the image of the
\* item it asked for (lines 167-170)
ImageResolved(t) ==
    /\ t \in 1..Len(entity_tasks)
    /\ entity_tasks[t].kind = "get_media_item_image_url"
    /\ media_players' = [media_players EXCEPT ![entity_tasks[t].player_id].cur_image =
                            ImageUrl(entity_tasks[t].item[1])]
    /\ entity_tasks' = Without(entity_tasks, t)
    /\ UNCHANGED <<dispatcher, added_entities, players_received, players_enumerated, players_removed,
                   queue_log, events_handled, mass_event, event_effects>>
    /\ UNCHANGED besidesEntities

RunTask(t) ==
    \/ AddedToHass(t)
    \/ \E queue_data \in UNION { QueueDatas(id) : id \in PlayerIds } : QueueFetched(t, queue_data)
    \/ ImageResolved(t)

NextEntities ==
    \/ SetupPlatform
    \/ \E ev \in EntityEvents : EntityEvent(ev)
    \/ \E t \in 1..Len(entity_tasks) : RunTask(t)

SpecEntities == InitEntities /\ [][NextEntities]_vars

\* The event loop runs every task it holds and the server answers every
\* call: the platform setup task runs, and a waiting coroutine goes on.
\* Nothing makes the server send an event.
EntitiesFairness ==
    /\ WF_vars(SetupPlatform)
    /\ WF_vars(\E t \in 1..Len(entity_tasks) : RunTask(t))

SpecEntitiesFair == SpecEntities /\ EntitiesFairness

\* the coroutines of entity player_id that wait for an image
ImageTasks(player_id) ==
    SelectSeq(entity_tasks, LAMBDA task :
        task.player_id = player_id /\ task.kind = "get_media_item_image_url")

\* C25: once the handlers of two queue updates of an entity's active queue
\* have both finished, the entity's cached image is the one resolved for its
\* cached current item, and that item is the one of the later update.
C25_ImageOfLatestItem ==
    \A id \in DOMAIN queue_log :
        LET log == queue_log[id]
            n == Len(log)
        IN  (/\ n >= 2
             /\ log[n].write = "queue update"
             /\ log[n - 1].write = "queue update"
             /\ ImageTasks(id) = <<>>)
              => /\ media_players[id].queue_cur_item = log[n].item
                 /\ media_players[id].cur_image = ImageUrl(media_players[id].queue_cur_item)

\* C26: once every event has been processed (no coroutine waits), the player
\* snapshot of each entity is the payload sent last on the players topic for
\* its player_id (unless a player-removed event has marked the entity since).
C26_SnapshotIsLatestPayload ==
    entity_tasks = <<>> =>
        \A id \in DOMAIN media_players \ players_removed :
            media_players[id].player_data = players_received[id]

\* C27: every available player that get_players has returned after a
\* connected event eventually has an entity.
C27_EnumeratedPlayersGetEntities ==
    \A id \in PlayerIds :
        (id \in players_enumerated) ~> (id \in DOMAIN media_players)

\* no player_id was given twice to async_add_entities
NoEntityTwice ==
    \A i, j \in 1..Len(added_entities) : i # j => added_entities[i] # added_entities[j]

\* what a payload on the players topic does once the platform listens
PlayersPayloadStep ==
    (/\ events_handled' = events_handled + 1
     /\ mass_event'.event \in {EVENT_PLAYER_ADDED, EVENT_PLAYER_CHANGED}
     /\ <<DISPATCH_KEY_PLAYERS, Platform>> \in dispatcher)
      => LET player_data == mass_event'.details
             player_id == player_data.player_id
             sent == DispatcherSend(DISPATCH_KEY_PLAYERS, player_data)
         IN  IF player_id \in DOMAIN media_players
             THEN /\ added_entities' = added_entities
                  /\ event_effects' =
                        <<sent, DispatcherSend(PlayerUpdateTopic(player_id), player_data)>>
             ELSE /\ added_entities' = IF player_data.available
                                       THEN Append(added_entities, player_id)
                                       ELSE added_entities
                  /\ event_effects' = <<sent>>

\* C30: at most one entity is ever made per player_id: a payload for an
\* unknown player_id makes an entity only if it says the player is
\* available, and a payload for a known player_id makes none and is sent on
\* on that player's update topic.
C30_OneEntityPerPlayer == []NoEntityTwice /\ [][PlayersPayloadStep]_vars

\* a payload for the known player1 has been sent on on its update topic
C30_Witness ==
    /\ mass_event.event \in {EVENT_PLAYER_ADDED, EVENT_PLAYER_CHANGED}
    /\ Len(event_effects) = 2
    /\ event_effects[2].topic = PlayerUpdateTopic("player1")
    /\ added_entities = <<"player1">>

----------------------------------------------------------------------------
(* Re-registration and failing remote calls of the bridge (Spec).          *)

\* the control_ids of a list of controls or of calls, in order
IdsOf(list) == [i \in 1..Len(list) |-> list[i].control_id]

Distinct(ids) == \A i, j \in 1..Len(ids) : i # j => ids[i] # ids[j]

\* C28: after a registration that went through, a second run with the same
\* options over the same entities leaves the table as it is; no control_id
\* is twice in an entity's list, and the handler of a state change pushes
\* each control of the entity's list once.
C28_ReRegistrationIdempotent ==
    /\ (handler.name = "async_register_player_controls" /\ ~handler.raised)
          => async_register_player_controls(hass_states, config_options,
                                            registered_controls, mass_controls, 0).table
                = registered_controls
    /\ \A e \in DOMAIN registered_controls : Distinct(IdsOf(registered_controls[e]))
    /\ (/\ handler.name = "async_hass_state_event"
        /\ ~handler.raised
        /\ HasNewState(handler.event)
        /\ handler.event.entity_id \in DOMAIN registered_controls)
          => /\ Distinct(IdsOf(mass_calls))
             /\ Range(IdsOf(mass_calls))
                   = Range(IdsOf(registered_controls[handler.event.entity_id]))

\* a registration of several controls has gone through and the table holds
\* an entity with several controls
C28_Witness ==
    /\ handler.name = "async_register_player_controls"
    /\ ~handler.raised
    /\ Len(mass_calls) >= 2
    /\ \E e \in DOMAIN registered_controls : Len(registered_controls[e]) >= 2

\* where the table holds a control of this id, and the control it holds there
EntryOf(table, control_id) ==
    UNION { { <<e, i, table[e][i]>> :
                i \in { j \in 1..Len(table[e]) : table[e][j].control_id = control_id } } :
            e \in DOMAIN table }

\* the handler that ran made remote calls for the controls and one raised
CallRaised ==
    /\ handler.name \in {"async_register_player_controls", "async_hass_state_event"}
    /\ handler.raised

\* what holds of a step in which a call for a control raises
FailedCallStep ==
    CallRaised' =>
        LET n == Len(mass_calls')
            failed == mass_calls'[n]
        IN  /\ n >= 1
            /\ \A i \in 1..(n - 1) : mass_calls'[i].control_id # failed.control_id
            /\ EntryOf(registered_controls', failed.control_id)
                  = EntryOf(registered_controls, failed.control_id)

\* C29: when a register_player_control or update_player_control call raises,
\* the handler ends with that call (it is made once and no call follows it)
\* and the table's entry of the control is the one it was before the handler.
C29_FailedCallNotRetried == [][FailedCallStep]_vars

\* a register call has raised, after another went through, for a control the
\* table does not hold
C29_Witness ==
    /\ handler.name = "async_register_player_controls"
    /\ handler.raised
    /\ Len(mass_calls) >= 2
    /\ EntryOf(registered_controls, mass_calls[Len(mass_calls)].control_id) = {}

----------------------------------------------------------------------------
(* Removal of a player and queue updates of an entity (SpecEntities).      *)

\* handle_mass_event is called with an event of this kind
EventHandled(event) ==
    /\ events_handled' = events_handled + 1
    /\ mass_event'.event = event

\* a player-removed event for a player of the table marks its entity and
\* leaves the table and the other entities as they are
PlayerRemovedStep ==
    (EventHandled(EVENT_PLAYER_REMOVED) /\ mass_event'.details \in DOMAIN media_players)
      => media_players' =
            [media_players EXCEPT ![mass_event'.details].player_data.available = FALSE]

\* a player-changed payload for a player marked by a removal replaces the
\* snapshot of its entity
ChangedAfterRemovedStep ==
    (/\ EventHandled(EVENT_PLAYER_CHANGED)
     /\ mass_event'.details.player_id \in players_removed)
      => media_players'[mass_event'.details.player_id].player_data = mass_event'.details

\* C31: no step takes an entity out of the table; a player-removed event
\* sets available of the entity of that player_id to false and changes
\* nothing else; a later player-changed payload for that id replaces the
\* snapshot, so that the entity is available again when the payload says so.
C31_RemovedMarksUnavailable ==
    [][/\ DOMAIN media_players \subseteq DOMAIN media_players'
       /\ PlayerRemovedStep
       /\ ChangedAfterRemovedStep]_vars

\* the coroutines of entity player_id among tasks that wait for an image
ImageTasksOf(tasks, player_id) ==
    SelectSeq(tasks, LAMBDA task :
        task.player_id = player_id /\ task.kind = "get_media_item_image_url")

\* what a queue update does to each entity of the table
QueueUpdateStep ==
    EventHandled(EVENT_QUEUE_UPDATED) =>
        \A id \in DOMAIN media_players :
            LET queue_data == mass_event'.details
                old == media_players[id]
                new == media_players'[id]
            IN  IF /\ queue_data.queue_id = old.player_data.active_queue
                   /\ <<DISPATCH_KEY_QUEUE_UPDATE, id>> \in dispatcher
                THEN /\ new.queue_data = queue_data
                     /\ new.queue_cur_item = IF queue_data.cur_item = <<>> THEN EmptyDict
                                             ELSE queue_data.cur_item[1]
                     /\ new.player_data = old.player_data
                ELSE /\ new = old
                     /\ ImageTasksOf(entity_tasks', id) = ImageTasksOf(entity_tasks, id)

\* the cached image of an entity changes only when a call that one of its
\* queue updates made returns, to the image of the item of that update
ImageChangeStep ==
    \A id \in DOMAIN media_players :
        media_players'[id].cur_image # media_players[id].cur_image
          => \E t \in 1..Len(entity_tasks) :
                /\ entity_tasks[t].player_id = id
                /\ entity_tasks[t].kind = "get_media_item_image_url"
                /\ media_players'[id].cur_image = ImageUrl(entity_tasks[t].item[1])

\* C32: a queue update writes the queue data and the current item of the
\* entities whose active_queue is its queue_id (the empty item when it has
\* no current item) and asks for their image; every other entity keeps its
\* cached state, and no image is asked for it.
C32_QueueUpdateOnlyActiveQueue == [][QueueUpdateStep /\ ImageChangeStep]_vars

\* a queue update without a current item has emptied the current item of
\* player1, which had one, while the entity of player2 listens too
C32_Witness ==
    /\ mass_event.event = EVENT_QUEUE_UPDATED
    /\ mass_event.details.cur_item = <<>>
    /\ \A id \in PlayerIds : <<DISPATCH_KEY_QUEUE_UPDATE, id>> \in dispatcher
    /\ LET log == queue_log["player1"]
       IN  /\ Len(log) >= 2
           /\ log[Len(log)].write = "queue update"
           /\ DOMAIN log[Len(log) - 1].item # {}
           /\ DOMAIN media_players["player1"].queue_cur_item = {}

----------------------------------------------------------------------------
(* The life of a config entry (SpecUnload): async_setup_entry makes the    *)
(* server object and the HassPlayerControls, whose constructor listens to  *)
(* state_changed on the bus; async_unload_entry takes the server out of    *)
(* hass.data and disconnects it.  The handlers are those of Spec.          *)

EntryId == "entry1"

\* the listener HassPlayerControls.__init__ gives to hass.bus.async_listen
StateListener == "HassPlayerControls.async_hass_state_event"

\* the options an entry is set up with
EntryOptions ==
    { AllEnabled,
      [power_control_entities |-> {AmpId \o "_power"}, volume_control_entities |-> {}] }

InitUnload ==
    /\ InitBridge
    /\ browse_item = <<>>
    /\ src = <<>>
    /\ uri = NoUri
    /\ parsed = NotParsed
    /\ IdleDisc
    /\ IdleEvents
    /\ IdlePlayer
    /\ IdleBrowse
    /\ IdleFlow
    /\ IdleUnload
    /\ IdleRace
    /\ IdleEntities

\* async_setup_entry (__init__.py lines 47-95) with a connect that succeeds
SetupEntry(options) ==
    /\ entry_state = "not loaded"
    /\ handler.name = "none"
    /\ options \in EntryOptions
    /\ hass_data' = hass_data \cup {EntryId}
    /\ bus_listeners' = bus_listeners \cup {StateListener}
    /\ config_options' = options
    /\ mass_connected' = TRUE
    /\ entry_state' = "loaded"
    /\ UNCHANGED <<hass_states, registered_controls, mass_controls, mass_calls,
                   service_calls, handler>>
    /\ UNCHANGED besidesUnload

\* the connected server sends the connected event
EntryConnected(failAt) ==
    /\ mass_connected
    /\ MassConnected(failAt)

\* the state machine fires state_changed and the bus calls its listeners
BusStateChanged(e, obj, failAt) ==
    /\ StateListener \in bus_listeners
    /\ StateChanged(e, obj, failAt)

\* state_changed while nobody listens
StateChangedUnheard(e, obj) ==
    /\ bus_listeners = {}
    /\ obj \in StateObjects(e)
    /\ DictGet(hass_states, e, <<>>) # obj
    /\ hass_states' = (e :> obj) @@ hass_states
    /\ UNCHANGED <<config_options, registered_controls, mass_controls, mass_calls,
                   service_calls, handler>>
    /\ UNCHANGED besidesBridge

\* async_unload_entry (__init__.py lines 104-108)
UnloadEntry ==
    /\ entry_state = "loaded"
    /\ handler.name = "none"
    /\ hass_data' = hass_data \ {EntryId}
    /\ mass_connected' = FALSE
    /\ entry_state' = "unloaded"
    /\ UNCHANGED bus_listeners
    /\ UNCHANGED bridgeVars
    /\ UNCHANGED besidesUnload

NextUnload ==
    \/ \E options \in EntryOptions : SetupEntry(options)
    \/ \E f \in FailChoices(Cardinality(EnabledControls(config_options))) : EntryConnected(f)
    \/ \E e \in EntityIds : \E obj \in StateObjects(e) :
          \E f \in FailChoices(Len(DictGet(registered_controls, e, <<>>))) :
             BusStateChanged(e, obj, f)
    \/ \E e \in EntityIds : \E obj \in StateObjects(e) : StateChangedUnheard(e, obj)
    \/ UnloadEntry
    \/ Return

SpecUnload == InitUnload /\ [][NextUnload]_vars

\* C33: once async_unload_entry has taken the entry's server out of the
\* registry and disconnected it, no handler of the bridge makes a register
\* or update call on that server.
C33_NoCallsAfterUnload ==
    (entry_state = "unloaded" /\ EntryId \notin hass_data /\ ~mass_connected)
      => \A i \in 1..Len(mass_calls) :
            mass_calls[i].method \notin {"register_player_control", "update_player_control"}

====
